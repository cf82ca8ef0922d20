----------------------------- MODULE AccessProofs -----------------------------
(***************************************************************************)
(* The safety properties of Admission, Catalog, Upkeep and Attempts.       *)
(*                                                                         *)
(* Admission, for any number of requests and keys, whatever the requests   *)
(* are priced at, the caps, the allowance and the bound on learned sizing. *)
(* What an admission has read stands until it ends (FiguresStand), because *)
(* a step taken under someone else's lock adds to no sum of what is spent  *)
(* or held (Eased).                                                        *)
(*                                                                         *)
(* Catalog, for any file, route, usage, rates, thresholds and reports: a   *)
(* request never costs more than it holds and is never sold below its cost,*)
(* and a row of /v1/models is the route of its id.                         *)
(*                                                                         *)
(* Upkeep, for any inventory, dossiers and pages: no zero is published that*)
(* its lane did not earn or a person pin, a quiet report means that        *)
(* nothing moved, and a green one that every lane costs what is published. *)
(*                                                                         *)
(* Attempts, for any route, rates and usage: the row a walk settles into   *)
(* counts every cost on one side, and says which of its sums have a gap.   *)
(***************************************************************************)
EXTENDS Admission, Upkeep, Attempts, Sums

-----------------------------------------------------------------------------
(* The operators.                                                          *)

\* The greatest of a finite set of naturals.
LEMMA MaxNatural ==
    ASSUME NEW S, IsFiniteSet(S), S \subseteq Nat, S # {}
    PROVE  Max(S) \in Nat /\ \A y \in S : y <= Max(S)
<1>1. S \subseteq Int
  OBVIOUS
<1>2. \E x \in S : \A y \in S : x >= y
  BY <1>1, Greatest
<1>3. Max(S) \in S /\ \A y \in S : Max(S) >= y
  BY <1>2 DEF Max
<1> QED BY <1>3

\* The lesser of two integers.
LEMMA MinPair ==
    ASSUME NEW a \in Int, NEW b \in Int
    PROVE  /\ Min({a, b}) \in {a, b}
           /\ Min({a, b}) <= a /\ Min({a, b}) <= b
<1>1. \E x \in {a, b} : \A y \in {a, b} : x =< y
  OBVIOUS
<1>2. Min({a, b}) \in {a, b} /\ \A y \in {a, b} : Min({a, b}) =< y
  BY <1>1 DEF Min
<1> QED BY <1>2

\* The user's ceilings are among the keys'.
LEMMA CeilingsTyped ==
    ASSUME TypeOK, NEW k \in Keys
    PROVE  UserSpendCap(k) \in Nat /\ UserVelocityCap(k) \in Nat
<1> DEFINE S == Siblings(k)
<1>1. S \subseteq Keys /\ k \in S /\ IsFiniteSet(S)
  BY RequestsAssumption, FS_Subset DEF Siblings
<1> HIDE DEF S
<1>2. ASSUME NEW cap \in [Keys -> Nat]
      PROVE  Max({cap[j] : j \in S}) \in Nat
  <2> DEFINE T == {cap[j] : j \in S}
  <2>1. T \subseteq Nat /\ T # {}
    BY <1>1
  <2>2. IsFiniteSet(T)
    BY <1>1, FiniteImage
  <2> HIDE DEF T
  <2>3. Max(T) \in Nat
    BY <2>1, <2>2, MaxNatural
  <2> QED BY <2>3 DEF T
<1> QED BY <1>2, CeilingsAssumption DEF UserSpendCap, UserVelocityCap, S

\* The fee is a natural no greater than the price it is on.
LEMMA FeeBounds ==
    ASSUME NEW price \in Nat
    PROVE  Fee(price) \in Nat /\ Fee(price) <= price
  BY DEF Fee, FeePercent

\* What the allowance leaves, and what is beyond it.
LEMMA AllowanceBounds ==
    ASSUME NEW price \in Nat, NEW consumed \in Nat
    PROVE  /\ Remaining(consumed) \in Nat
           /\ Billable(price, consumed) \in Nat
  BY CeilingsAssumption DEF Remaining, Billable, Price

\* A request's sizes and key.
LEMMA ShapeTyped ==
    ASSUME TypeOK, NEW r \in Requests
    PROVE  /\ KeyOf(r) \in Keys /\ shape[r].key \in Keys
           /\ shape[r].free \in BOOLEAN
           /\ shape[r].full \in Size
           /\ shape[r].learned # Unsized =>
                /\ shape[r].learned \in Size
                /\ shape[r].learned.price <= shape[r].full.price
  BY RequestsAssumption DEF TypeOK, Shape, KeyOf

\* A reservation is sized at a natural.
LEMMA SizedTyped ==
    ASSUME NEW size \in Size, NEW posture
    PROVE  /\ size.price \in Nat /\ size.tokens \in Nat
           /\ Sized(size, posture) \in Nat
           /\ Sized(size, posture) <= size.price
<1>1. size.price \in Nat /\ size.tokens \in Nat
  BY DEF Size, Price
<1> QED BY <1>1, FeeBounds DEF Sized

\* What an admission sums.
SumsNatural ==
    /\ \A k \in Keys, w \in {"daily", "monthly", "lifetime"} :
         Spent(k, w) \in Nat
    /\ SpentByUser \in Nat
    /\ \A k \in Keys : Tokens(k) \in Nat
    /\ TokensOfUser \in Nat
    /\ \A r \in Requests : Consumed(r) \in Nat
    /\ \A S \in SUBSET Encumbering : Held(S) \in Nat /\ HeldTokens(S) \in Nat
    /\ Committed \in Nat
    /\ LiveCount \in Nat

\* All of it is natural.
LEMMA SumsTyped == TypeOK => SumsNatural
<1> SUFFICES ASSUME TypeOK PROVE SumsNatural
  OBVIOUS
<1>1. \A q \in Requests : events[q] # Nothing =>
         /\ events[q].cost \in Nat /\ events[q].tokens \in Nat
         /\ events[q].catalog \in Nat
  BY DEF TypeOK, Events, Price
<1>2. \A q \in Requests : rows[q] # Nothing =>
         /\ rows[q].cost \in Nat /\ rows[q].tokens \in Nat
         /\ rows[q].basis \in Nat
  BY DEF TypeOK, Reservations
<1>3. IsFiniteSet(Requests)
  BY RequestsAssumption
<1>4. \A S \in SUBSET Requests : \A g :
         DOMAIN g = S /\ (\A q \in S : g[q] \in Nat) => SumFunction(g) \in Nat
  <2> SUFFICES ASSUME NEW S \in SUBSET Requests, NEW g, DOMAIN g = S,
                      \A q \in S : g[q] \in Nat
               PROVE  SumFunction(g) \in Nat
    OBVIOUS
  <2>1. DOMAIN g \subseteq Requests /\ \A q \in DOMAIN g : g[q] \in Nat
    OBVIOUS
  <2> QED BY <1>3, <2>1, SumWholeType
<1>5. ASSUME NEW w, NEW S, S \subseteq EventOfUser(w)
      PROVE  /\ SumFunction([q \in S |-> events[q].cost]) \in Nat
             /\ SumFunction([q \in S |-> events[q].tokens]) \in Nat
             /\ SumFunction([q \in S |-> events[q].catalog]) \in Nat
  <2>1. S \in SUBSET Requests
    BY <1>5 DEF EventOfUser
  <2>2. \A q \in S : /\ events[q].cost \in Nat /\ events[q].tokens \in Nat
                     /\ events[q].catalog \in Nat
    BY <1>1, <1>5 DEF EventOfUser
  <2> QED BY <1>4, <2>1, <2>2
<1>6. ASSUME NEW S, S \subseteq Encumbering
      PROVE  /\ SumFunction([q \in S |-> rows[q].cost]) \in Nat
             /\ SumFunction([q \in S |-> rows[q].tokens]) \in Nat
             /\ SumFunction([q \in S |-> rows[q].basis]) \in Nat
  <2>1. S \in SUBSET Requests
    BY <1>6 DEF Encumbering
  <2>2. \A q \in S : /\ rows[q].cost \in Nat /\ rows[q].tokens \in Nat
                     /\ rows[q].basis \in Nat
    BY <1>2, <1>6 DEF Encumbering, Live
  <2> QED BY <1>4, <2>1, <2>2
<1>7. \A k, w : Event(k, w) \subseteq EventOfUser(w)
  BY DEF Event
<1>8. LiveCount \in Nat
  <2> DEFINE S == {q \in Requests : Live(q)}
  <2>1. IsFiniteSet(S)
    BY <1>3, FS_Subset
  <2> QED BY <2>1, FS_CardinalityType DEF LiveCount
<1>9. /\ \A k \in Keys, w \in {"daily", "monthly", "lifetime"} :
           Spent(k, w) \in Nat
      /\ SpentByUser \in Nat
      /\ \A k \in Keys : Tokens(k) \in Nat
      /\ TokensOfUser \in Nat
      /\ \A r \in Requests : Consumed(r) \in Nat
  BY <1>5, <1>7 DEF Spent, SpentByUser, Tokens, TokensOfUser, Consumed
<1>10. /\ \A S \in SUBSET Encumbering :
            Held(S) \in Nat /\ HeldTokens(S) \in Nat
       /\ Committed \in Nat
  BY <1>6 DEF Held, HeldTokens, Committed
<1> QED BY <1>8, <1>9, <1>10 DEF SumsNatural

\* So it is after a step.
LEMMA SumsTypedNext == TypeOK' => SumsNatural'
  BY SumsTyped, PTL

-----------------------------------------------------------------------------
(* Where a request is, and what it has by then.                            *)

\* Between its key statement and its commit a request's transaction holds the
\* key's row.
InTransaction == {"keyed", "unfrozen", "summed", "counted"}

\* What has been read at each stage, and the row, payload and event of each.
Stage(r) ==
    /\ pc[r] \in {"keyed", "unfrozen"} => seen[r] \in Ceilings
    /\ pc[r] = "summed" => seen[r] \in Settled
    /\ pc[r] = "counted" => seen[r] \in Counted
    /\ pc[r] = "admitted" /\ ~shape[r].free => rows[r] # Nothing
    /\ rows[r] # Nothing =>
         /\ ~shape[r].free /\ pc[r] \in {"admitted", "owed", "dead"}
         /\ pc[r] = "admitted" => ~rows[r].expired
    /\ pc[r] = "owed" =>
         /\ owed[r] \in Payloads
         /\ owed[r].by \in ServedBy(routedAs[r]) /\ owed[r].usage \in Usages(r)
         /\ ~shape[r].free => rows[r] # Nothing /\ rows[r].intent
    /\ pc[r] # "settled" => events[r] = Nothing

Stages == \A r \in Requests : Stage(r)

\* What an admission reserves is a natural, as is all it keeps in its row.
LEMMA ReservationTyped ==
    ASSUME TypeOK, NEW r \in Requests, ~shape[r].free
    PROVE  /\ ReservedCost(r) \in Nat
           /\ Reservation(r) \in Reservations
           /\ ~Reservation(r).expired /\ ~Reservation(r).intent
           /\ Reservation(r).cost = ReservedCost(r)
           /\ Reservation(r) # Nothing
<1>1. ChosenSize(r) \in Size
  BY ShapeTyped DEF ChosenSize, LearnedAllowed
<1>2. ReservedCost(r) \in Nat /\ ChosenSize(r).tokens \in Nat
  BY <1>1, SizedTyped DEF ReservedCost
<1>3. Basis(r) \in Nat
  BY ShapeTyped, SizedTyped DEF Basis
<1>4. Reservation(r) = [cost |-> ReservedCost(r), tokens |-> ChosenSize(r).tokens,
                        basis |-> Basis(r), expired |-> FALSE, intent |-> FALSE]
  BY DEF Reservation
<1>5. Reservation(r) \in Reservations
  BY <1>2, <1>3, <1>4 DEF Reservations
<1>6. Reservation(r) # Nothing
  BY <1>5, NothingAssumption
<1> QED BY <1>2, <1>4, <1>5, <1>6

\* A charge is a natural, no more than the price of what was used.
LEMMA ChargeTyped ==
    ASSUME TypeOK, Stages, NEW r \in Requests, pc[r] = "owed"
    PROVE  /\ owed[r].by \in {"house", "byok"}
           /\ owed[r].usage \in Size
           /\ owed[r].usage.price <= shape[r].full.price
           /\ Charge(r) \in Nat
           /\ Charge(r) <= owed[r].usage.price
           /\ owed[r].by = "byok" => Charge(r) <= Fee(owed[r].usage.price)
<1>1. /\ owed[r] \in Payloads /\ owed[r].usage \in Usages(r)
  BY DEF Stages, Stage
<1>2. owed[r].by \in {"house", "byok"} /\ owed[r].usage \in Size
  BY <1>1 DEF Payloads
<1>3. owed[r].usage.price \in Nat
  BY <1>2, SizedTyped
<1>4. owed[r].usage.price <= shape[r].full.price
  BY <1>1, <1>3, ShapeTyped, SizedTyped DEF Usages
<1>5. Consumed(r) \in Nat
  BY SumsTyped DEF SumsNatural
<1> DEFINE a == Fee(Billable(owed[r].usage.price, Consumed(r)))
           b == Fee(owed[r].usage.price)
<1>6. a \in Nat /\ b \in Nat /\ b <= owed[r].usage.price
  BY <1>3, <1>5, AllowanceBounds, FeeBounds
<1>7. Charge(r) = IF owed[r].by = "house" THEN owed[r].usage.price
                  ELSE Min({a, b})
  BY DEF Charge
<1> HIDE DEF a, b
<1>8. Min({a, b}) \in Nat /\ Min({a, b}) <= b
  <2>1. a \in Int /\ b \in Int
    BY <1>6
  <2>2. Min({a, b}) \in {a, b} /\ Min({a, b}) <= b
    BY <2>1, MinPair
  <2> QED BY <1>6, <2>2
<1>9. Charge(r) \in Nat /\ Charge(r) <= owed[r].usage.price
  BY <1>3, <1>6, <1>7, <1>8
<1>10. owed[r].by = "byok" => Charge(r) <= b
  BY <1>7, <1>8
<1> QED BY <1>2, <1>4, <1>9, <1>10 DEF b

\* The event a settle writes, and the one an observation may.
LEMMA EventTyped ==
    /\ \A cost, tokens, held \in Nat, catalog \in Price, late \in BOOLEAN :
         [cost |-> cost, tokens |-> tokens, catalog |-> catalog,
          held |-> held, age |-> "minute", late |-> late] \in Events
    /\ 0 \in Price
  BY DEF Events, Price

\* Nothing of a request but the one a step is of changes.
LEMMA StageKept ==
    ASSUME NEW q \in Requests, Stage(q), pc'[q] = pc[q], seen'[q] = seen[q],
           rows'[q] = rows[q], owed'[q] = owed[q], events'[q] = events[q],
           shape'[q] = shape[q], routedAs'[q] = routedAs[q]
    PROVE  Stage(q)'
  BY DEF Stage, Usages

\* The steps of the route and of the locks.
LEMMA EarlySteps ==
    ASSUME TypeOK, Stages, NEW r \in Requests,
           \/ ReadCoverage(r) \/ BuildRoute(r) \/ TakeUserLock(r)
           \/ GiveUpWaiting(r) \/ KeyRefused(r) \/ FrozenOut(r) \/ GatedOut(r)
    PROVE  TypeOK' /\ Stages'
<1> USE DEF Move
<1>1. CASE ReadCoverage(r)
  <2>1. TypeOK'
    BY <1>1, CeilingsAssumption
    DEF ReadCoverage, TypeOK, ReadsAs, Disturb
  <2>2. Stages'
    BY <1>1 DEF ReadCoverage, TypeOK, Stages, Stage, Usages
  <2> QED BY <2>1, <2>2
<1>2. CASE BuildRoute(r)
  <2>1. TypeOK'
    BY <1>2, CeilingsAssumption
    DEF BuildRoute, TypeOK, ReadsAs, Disturb
  <2>2. Stages'
    <3> SUFFICES ASSUME NEW q \in Requests PROVE Stage(q)'
      BY DEF Stages
    <3>1. CASE q = r
      BY <1>2, <3>1 DEF BuildRoute, TypeOK, Stages, Stage
    <3>2. CASE q # r
      <4>1. /\ pc'[q] = pc[q] /\ routedAs'[q] = routedAs[q]
        BY <1>2, <3>2 DEF BuildRoute, TypeOK
      <4> QED BY <1>2, <4>1, StageKept DEF BuildRoute, Stages
    <3> QED BY <3>1, <3>2
  <2> QED BY <2>1, <2>2
<1>3. CASE TakeUserLock(r)
  <2>1. TypeOK'
    BY <1>3 DEF TakeUserLock, TypeOK
  <2>2. Stages'
    BY <1>3 DEF TakeUserLock, TypeOK, Stages, Stage, Usages
  <2> QED BY <2>1, <2>2
<1>4. ASSUME Refuse(r), pc[r] \in {"routed", "locked", "keyed", "counted"}
      PROVE  TypeOK' /\ Stages'
  <2>1. TypeOK'
    BY <1>4 DEF Refuse, Release, TypeOK
  <2>2. Stages'
    <3> SUFFICES ASSUME NEW q \in Requests PROVE Stage(q)'
      BY DEF Stages
    <3>1. CASE q = r
      BY <1>4, <3>1 DEF Refuse, TypeOK, Stages, Stage
    <3>2. CASE q # r
      <4>1. pc'[q] = pc[q] /\ seen'[q] = seen[q]
        BY <1>4, <3>2 DEF Refuse, Release, TypeOK
      <4> QED BY <1>4, <4>1, StageKept DEF Refuse, Stages
    <3> QED BY <3>1, <3>2
  <2> QED BY <2>1, <2>2
<1>5. CASE GiveUpWaiting(r) \/ KeyRefused(r) \/ FrozenOut(r) \/ GatedOut(r)
  BY <1>4, <1>5 DEF GiveUpWaiting, KeyRefused, FrozenOut, GatedOut
<1> QED BY <1>1, <1>2, <1>3, <1>5

\* The statements of the transaction.
LEMMA StatementSteps ==
    ASSUME TypeOK, Stages, NEW r \in Requests,
           \/ CheckKey(r) \/ CheckFreeze(r) \/ ReadSettled(r) \/ ReadHeld(r)
    PROVE  TypeOK' /\ Stages'
<1> USE DEF Move
<1>1. CASE CheckKey(r)
  <2> DEFINE c == [userSpendCap |-> UserSpendCap(KeyOf(r)),
                   userVelocityCap |-> UserVelocityCap(KeyOf(r)),
                   limit |-> keys[KeyOf(r)].limit]
  <2>1. c \in Ceilings
    BY ShapeTyped, CeilingsTyped DEF Ceilings, TypeOK
  <2>2. seen' = [seen EXCEPT ![r] = c]
    BY <1>1 DEF CheckKey
  <2> HIDE DEF c
  <2>3. keyLock' \in [Keys -> Requests \cup {Nothing}]
    BY <1>1 DEF CheckKey, RowLocked, TypeOK
  <2>4. TypeOK'
    BY <1>1, <2>1, <2>2, <2>3 DEF CheckKey, TypeOK
  <2>5. Stages'
    <3> SUFFICES ASSUME NEW q \in Requests PROVE Stage(q)'
      BY DEF Stages
    <3>1. CASE q = r
      BY <1>1, <2>1, <2>2, <3>1 DEF CheckKey, TypeOK, Stages, Stage
    <3>2. CASE q # r
      <4>1. pc'[q] = pc[q] /\ seen'[q] = seen[q]
        BY <1>1, <2>2, <3>2 DEF CheckKey, TypeOK
      <4> QED BY <1>1, <4>1, StageKept DEF CheckKey, Stages
    <3> QED BY <3>1, <3>2
  <2> QED BY <2>4, <2>5
<1>2. CASE CheckFreeze(r)
  <2>1. TypeOK'
    BY <1>2 DEF CheckFreeze, TypeOK
  <2>2. Stages'
    BY <1>2 DEF CheckFreeze, TypeOK, Stages, Stage, Usages
  <2> QED BY <2>1, <2>2
<1>3. CASE ReadSettled(r)
  <2> DEFINE k == KeyOf(r)
             window == IF seen[r].limit = Unlimited THEN "monthly"
                       ELSE seen[r].limit.window
             s == [caps |-> seen[r],
                   spent |-> Spent(k, "monthly"), userSpent |-> SpentByUser,
                   windowSpent |-> Spent(k, window),
                   tokens |-> Tokens(k), userTokens |-> TokensOfUser,
                   consumed |-> Consumed(r)]
  <2>1. seen[r] \in Ceilings
    BY <1>3 DEF ReadSettled, Stages, Stage
  <2>2. k \in Keys /\ window \in {"daily", "monthly", "lifetime"}
    BY <2>1, ShapeTyped, CeilingsAssumption DEF Ceilings, Limit
  <2>3. s \in Settled
    <3> HIDE DEF window, k
    <3>1. /\ Spent(k, "monthly") \in Nat /\ SpentByUser \in Nat
          /\ Spent(k, window) \in Nat /\ Tokens(k) \in Nat
          /\ TokensOfUser \in Nat /\ Consumed(r) \in Nat
      BY <2>2, SumsTyped DEF SumsNatural
    <3> QED BY <2>1, <3>1 DEF Settled
  <2>4. seen' = [seen EXCEPT ![r] = s]
    BY <1>3 DEF ReadSettled, TypeOK
  <2> HIDE DEF s
  <2>5. \A q \in Requests : rows'[q] = rows[q] \/ rows'[q] = Nothing
    BY <1>3 DEF ReadSettled, Swept, TypeOK
  <2>6. rows' \in [Requests -> Reservations \cup {Nothing}]
    BY <1>3, <2>5 DEF ReadSettled, TypeOK
  <2>7. TypeOK'
    BY <1>3, <2>3, <2>4, <2>6 DEF ReadSettled, TypeOK
  <2>8. \A q \in Requests :
           rows[q] # Nothing /\ rows'[q] = Nothing =>
              ~shape[r].free /\ rows[q].expired /\ ~rows[q].intent
    BY <1>3 DEF ReadSettled, Swept, TypeOK
  <2>9. Stages'
    <3> SUFFICES ASSUME NEW q \in Requests PROVE Stage(q)'
      BY DEF Stages
    <3>0. /\ pc'[q] = (IF q = r THEN "summed" ELSE pc[q])
          /\ seen'[q] = (IF q = r THEN s ELSE seen[q])
      BY <1>3, <2>4 DEF ReadSettled, TypeOK
    <3>1. UNCHANGED <<shape, owed, events, routedAs>> /\ pc[r] = "unfrozen"
      BY <1>3 DEF ReadSettled
    <3>2. Stage(q) /\ (rows'[q] = rows[q] \/ rows'[q] = Nothing)
      BY <2>5 DEF Stages
    <3>3. CASE q = r
      BY <2>3, <3>0, <3>1, <3>2, <3>3 DEF Stage
    <3>4. CASE q # r /\ rows'[q] = rows[q]
      BY <3>0, <3>1, <3>2, <3>4, StageKept
    <3>5. CASE q # r /\ rows[q] # Nothing /\ rows'[q] = Nothing
      <4>1. pc[q] = "dead"
        BY <2>8, <3>2, <3>5 DEF Stage
      <4> QED BY <3>0, <3>1, <3>2, <3>5, <4>1 DEF Stage
    <3> QED BY <3>2, <3>3, <3>4, <3>5
  <2> QED BY <2>7, <2>9
<1>4. CASE ReadHeld(r)
  <2> DEFINE mine == EncumberingKey(KeyOf(r))
             c == [settled |-> seen[r],
                   held |-> Held(mine), userHeld |-> Held(Encumbering),
                   tokens |-> HeldTokens(mine),
                   userTokens |-> HeldTokens(Encumbering),
                   live |-> LiveCount, committed |-> Committed]
  <2>1. seen[r] \in Settled
    BY <1>4 DEF ReadHeld, Stages, Stage
  <2>2. mine \in SUBSET Encumbering /\ Encumbering \in SUBSET Encumbering
    BY DEF EncumberingKey
  <2>3. c \in Counted
    <3> HIDE DEF mine
    <3>1. /\ Held(mine) \in Nat /\ Held(Encumbering) \in Nat
          /\ HeldTokens(mine) \in Nat /\ HeldTokens(Encumbering) \in Nat
          /\ LiveCount \in Nat /\ Committed \in Nat
      BY <2>2, SumsTyped DEF SumsNatural
    <3> QED BY <2>1, <3>1 DEF Counted
  <2>4. seen' = [seen EXCEPT ![r] = c]
    BY <1>4 DEF ReadHeld, TypeOK
  <2> HIDE DEF c
  <2>5. TypeOK'
    BY <1>4, <2>3, <2>4 DEF ReadHeld, TypeOK
  <2>6. Stages'
    <3> SUFFICES ASSUME NEW q \in Requests PROVE Stage(q)'
      BY DEF Stages
    <3>1. CASE q = r
      BY <1>4, <2>3, <2>4, <3>1 DEF ReadHeld, TypeOK, Stages, Stage
    <3>2. CASE q # r
      <4>1. pc'[q] = pc[q] /\ seen'[q] = seen[q]
        BY <1>4, <2>4, <3>2 DEF ReadHeld, TypeOK
      <4> QED BY <1>4, <4>1, StageKept DEF ReadHeld, Stages
    <3> QED BY <3>1, <3>2
  <2> QED BY <2>5, <2>6
<1> QED BY <1>1, <1>2, <1>3, <1>4

\* What follows the decision.
LEMMA LateSteps ==
    ASSUME TypeOK, Stages, NEW r \in Requests,
           \/ Admit(r) \/ Answer(r) \/ Settle(r) \/ Observe(r)
           \/ Die(r) \/ Expire(r) \/ Age(r)
    PROVE  TypeOK' /\ Stages'
<1> USE DEF Move
<1>1. CASE Admit(r)
  <2>1. \/ shape[r].free /\ Reservation(r) = Nothing
        \/ /\ ~shape[r].free /\ Reservation(r) \in Reservations
           /\ Reservation(r) # Nothing /\ ~Reservation(r).expired
    BY ReservationTyped DEF Reservation
  <2>2. rows' = [rows EXCEPT ![r] = Reservation(r)] /\ pc[r] = "counted"
    BY <1>1 DEF Admit
  <2>3. TypeOK'
    BY <1>1, <2>1, <2>2 DEF Admit, Release, TypeOK
  <2>4. Stages'
    <3> SUFFICES ASSUME NEW q \in Requests PROVE Stage(q)'
      BY DEF Stages
    <3>1. CASE q = r
      <4>1. pc'[q] = "admitted" /\ rows'[q] = Reservation(r) /\ shape' = shape
            /\ events'[q] = Nothing
        BY <1>1, <3>1 DEF Admit, TypeOK, Stages, Stage
      <4> QED BY <2>1, <3>1, <4>1 DEF Stage
    <3>2. CASE q # r
      <4>1. pc'[q] = pc[q] /\ seen'[q] = seen[q] /\ rows'[q] = rows[q]
        BY <1>1, <3>2 DEF Admit, Release, TypeOK
      <4> QED BY <1>1, <4>1, StageKept DEF Admit, Stages
    <3> QED BY <3>1, <3>2
  <2> QED BY <2>3, <2>4
<1>2. CASE Answer(r)
  <2>1. PICK by \in ServedBy(routedAs[r]), usage \in Usages(r) :
           owed' = [owed EXCEPT ![r] = [by |-> by, usage |-> usage]]
    BY <1>2 DEF Answer
  <2>2. by \in {"house", "byok"}
    BY <2>1 DEF TypeOK, Postures, ServedBy
  <2>3. usage \in Size
    BY <2>1, ShapeTyped DEF Usages
  <2>4. [by |-> by, usage |-> usage] \in Payloads
    BY <2>2, <2>3 DEF Payloads
  <2>5. \/ shape[r].free /\ rows' = rows
        \/ /\ ~shape[r].free /\ rows[r] \in Reservations /\ rows[r] # Nothing
           /\ rows' = [rows EXCEPT ![r].intent = TRUE]
    BY <1>2 DEF Answer, TypeOK, Stages, Stage
  <2>6. /\ rows' \in [Requests -> Reservations \cup {Nothing}]
        /\ \A q \in Requests : q # r => rows'[q] = rows[q]
        /\ shape[r].free => rows'[r] = rows[r]
        /\ ~shape[r].free => rows'[r] \in Reservations /\ rows'[r].intent
    <3>1. CASE shape[r].free /\ rows' = rows
      BY <3>1 DEF TypeOK
    <3>2. CASE /\ ~shape[r].free /\ rows[r] \in Reservations
               /\ rows' = [rows EXCEPT ![r].intent = TRUE]
      <4>1. [rows[r] EXCEPT !.intent = TRUE] \in Reservations
        BY <3>2 DEF Reservations
      <4>2. rows' = [rows EXCEPT ![r] = [rows[r] EXCEPT !.intent = TRUE]]
        BY <3>2 DEF TypeOK
      <4>3. [rows[r] EXCEPT !.intent = TRUE].intent
        BY <3>2 DEF Reservations
      <4> HIDE DEF Reservations
      <4> QED BY <3>2, <4>1, <4>2, <4>3 DEF TypeOK
    <3> QED BY <2>5, <3>1, <3>2
  <2>7. TypeOK'
    BY <1>2, <2>1, <2>4, <2>6 DEF Answer, TypeOK
  <2>8. Stages'
    <3> SUFFICES ASSUME NEW q \in Requests PROVE Stage(q)'
      BY DEF Stages
    <3>1. CASE q = r
      <4>1. /\ pc'[r] = "owed" /\ owed'[r] = [by |-> by, usage |-> usage]
            /\ UNCHANGED <<shape, events, routedAs>>
        BY <1>2, <2>1 DEF Answer, TypeOK
      <4>2. events[r] = Nothing /\ (rows[r] # Nothing => ~shape[r].free)
        BY <1>2 DEF Answer, Stages, Stage
      <4>3. rows'[r] \in Reservations => rows'[r] # Nothing
        BY NothingAssumption
      <4>4. owed'[r].by = by /\ owed'[r].usage = usage /\ owed'[r] \in Payloads
        BY <2>4, <4>1
      <4>5. usage \in Usages(r)' /\ by \in ServedBy(routedAs'[r])
        BY <2>1, <4>1 DEF Usages
      <4>6. shape[r].free \in BOOLEAN
        BY ShapeTyped
      <4> QED BY <2>6, <3>1, <4>1, <4>2, <4>3, <4>4, <4>5, <4>6 DEF Stage
    <3>2. CASE q # r
      <4>1. pc'[q] = pc[q] /\ owed'[q] = owed[q] /\ rows'[q] = rows[q]
        BY <1>2, <2>1, <2>6, <3>2 DEF Answer, TypeOK
      <4> QED BY <1>2, <4>1, StageKept DEF Answer, Stages
    <3> QED BY <3>1, <3>2
  <2> QED BY <2>7, <2>8
<1>3. CASE Settle(r)
  <2> DEFINE e == [cost |-> Charge(r), tokens |-> owed[r].usage.tokens,
                   catalog |-> IF owed[r].by = "byok"
                                 THEN owed[r].usage.price ELSE 0,
                   held |-> rows[r].cost, age |-> "minute",
                   late |-> rows[r].expired]
  <2>1. pc[r] = "owed" /\ ~shape[r].free
    BY <1>3 DEF Settle
  <2>2. rows[r] \in Reservations /\ rows[r] # Nothing
    BY <2>1 DEF TypeOK, Stages, Stage
  <2>3. Charge(r) \in Nat /\ owed[r].usage \in Size
    BY <2>1, ChargeTyped
  <2>4. /\ rows[r].cost \in Nat /\ rows[r].expired \in BOOLEAN
        /\ owed[r].usage.tokens \in Nat /\ owed[r].usage.price \in Price
    BY <2>2, <2>3 DEF Reservations, Size
  <2>5. e \in Events
    BY <2>3, <2>4, EventTyped
  <2>6. events' = [events EXCEPT ![r] = e]
    BY <1>3 DEF Settle
  <2> HIDE DEF e
  <2>7. balance' \in Int
    <3> DEFINE a == Charge(r)
               b == rows[r].cost
    <3>1. a \in Int /\ b \in Int
      BY <2>3, <2>4
    <3> HIDE DEF a, b
    <3>2. Min({a, b}) \in Int
      BY <3>1, MinPair
    <3> USE DEF a, b
    <3>3. Min({Charge(r), rows[r].cost}) \in Int
      BY <3>2
    <3> HIDE DEF a, b
    <3> QED BY <1>3, <3>3 DEF Settle, TypeOK
  <2>8. TypeOK'
    BY <1>3, <2>5, <2>6, <2>7 DEF Settle, TypeOK
  <2>9. Stages'
    <3> SUFFICES ASSUME NEW q \in Requests PROVE Stage(q)'
      BY DEF Stages
    <3>1. CASE q = r
      <4>1. pc'[r] = "settled" /\ rows'[r] = Nothing
        BY <1>3 DEF Settle, TypeOK
      <4> QED BY <3>1, <4>1 DEF Stage
    <3>2. CASE q # r
      <4>1. pc'[q] = pc[q] /\ events'[q] = events[q] /\ rows'[q] = rows[q]
        BY <1>3, <2>6, <3>2 DEF Settle, TypeOK
      <4> QED BY <1>3, <4>1, StageKept DEF Settle, Stages
    <3> QED BY <3>1, <3>2
  <2> QED BY <2>8, <2>9
<1>4. CASE Observe(r)
  <2> DEFINE e == [cost |-> 0, tokens |-> owed[r].usage.tokens,
                   catalog |-> 0, held |-> 0, age |-> "minute", late |-> FALSE]
  <2>1. owed[r].usage.tokens \in Nat
    <3>1. owed[r].usage \in Size
      BY <1>4, ChargeTyped DEF Observe
    <3> QED BY <3>1 DEF Size
  <2>2. e \in Events
    BY <2>1, EventTyped
  <2>3. events' = [events EXCEPT ![r] = e] \/ events' = events
    BY <1>4 DEF Observe
  <2> HIDE DEF e
  <2>4. TypeOK'
    BY <1>4, <2>2, <2>3 DEF Observe, TypeOK
  <2>5. Stages'
    <3> SUFFICES ASSUME NEW q \in Requests PROVE Stage(q)'
      BY DEF Stages
    <3>1. CASE q = r
      <4>1. pc'[r] = "settled" /\ rows'[r] = Nothing
        BY <1>4 DEF Observe, TypeOK, Stages, Stage
      <4> QED BY <3>1, <4>1 DEF Stage
    <3>2. CASE q # r
      <4>1. pc'[q] = pc[q] /\ events'[q] = events[q]
        BY <1>4, <2>3, <3>2 DEF Observe, TypeOK
      <4> QED BY <1>4, <4>1, StageKept DEF Observe, Stages
    <3> QED BY <3>1, <3>2
  <2> QED BY <2>4, <2>5
<1>5. CASE Die(r)
  <2>1. TypeOK'
    BY <1>5, CeilingsAssumption DEF Die, Disturb, TypeOK
  <2>2. Stages'
    <3> SUFFICES ASSUME NEW q \in Requests PROVE Stage(q)'
      BY DEF Stages
    <3>1. CASE q = r
      BY <1>5, <3>1 DEF Die, TypeOK, Stages, Stage
    <3>2. CASE q # r
      <4>1. pc'[q] = pc[q]
        BY <1>5, <3>2 DEF Die, TypeOK
      <4> QED BY <1>5, <4>1, StageKept DEF Die, Stages
    <3> QED BY <3>1, <3>2
  <2> QED BY <2>1, <2>2
<1>6. CASE Expire(r)
  <2>1. rows[r] \in Reservations
    BY <1>6 DEF Expire, TypeOK
  <2>2. /\ rows' \in [Requests -> Reservations \cup {Nothing}]
        /\ \A q \in Requests : q # r => rows'[q] = rows[q]
        /\ rows'[r] # Nothing /\ rows'[r].intent = rows[r].intent
    BY <1>6, <2>1, NothingAssumption DEF Expire, TypeOK, Reservations
  <2>3. TypeOK'
    BY <1>6, <2>2 DEF Expire, TypeOK
  <2>4. Stages'
    <3> SUFFICES ASSUME NEW q \in Requests PROVE Stage(q)'
      BY DEF Stages
    <3>1. CASE q = r
      BY <1>6, <2>2, <3>1 DEF Expire, Stages, Stage, Usages
    <3>2. CASE q # r
      BY <1>6, <2>2, <3>2, StageKept DEF Expire, Stages
    <3> QED BY <3>1, <3>2
  <2> QED BY <2>3, <2>4
<1>7. CASE Age(r)
  <2>1. PICK i \in 1..3 : events' = [events EXCEPT ![r].age = Ages[i + 1]]
    BY <1>7 DEF Age
  <2>2. Ages[i + 1] \in {"minute", "day", "month", "older"}
    BY DEF Ages
  <2>3. events[r] \in Events
    BY <1>7 DEF Age, TypeOK
  <2>4. /\ events' \in [Requests -> Events \cup {Nothing}]
        /\ \A q \in Requests : q # r => events'[q] = events[q]
    BY <2>1, <2>2, <2>3 DEF TypeOK, Events
  <2>5. TypeOK'
    BY <1>7, <2>4, CeilingsAssumption DEF Age, Disturb, TypeOK
  <2>6. Stages'
    <3> SUFFICES ASSUME NEW q \in Requests PROVE Stage(q)'
      BY DEF Stages
    <3>1. CASE q = r
      BY <1>7, <3>1 DEF Age, Stages, Stage, Usages
    <3>2. CASE q # r
      BY <1>7, <2>4, <3>2, StageKept DEF Age, Stages
    <3> QED BY <3>1, <3>2
  <2> QED BY <2>5, <2>6
<1> QED BY <1>1, <1>2, <1>3, <1>4, <1>5, <1>6, <1>7

\* What the portal, the operator and the clock do.
LEMMA OutsideSteps ==
    ASSUME TypeOK, Stages,
           \/ \E k \in Keys : Disable(k) \/ EditLimit(k) \/ Lapse(k)
           \/ Freeze \/ ChangeCoverage
    PROVE  TypeOK' /\ Stages'
<1>1. UNCHANGED <<pc, shape, seen, rows, owed, events, routedAs>>
  BY DEF Disable, EditLimit, Lapse, Freeze, ChangeCoverage
<1>2. Stages'
  BY <1>1 DEF Stages, Stage, Usages
<1>3. disturbed' \in 0..Disturbances
  BY CeilingsAssumption
     DEF Disable, EditLimit, Lapse, Freeze, ChangeCoverage, Disturb, TypeOK
<1>4. keys' \in [Keys -> [disabled : BOOLEAN, expired : BOOLEAN,
                          limit : Limits \cup {Unlimited}]]
  <2>1. CASE UNCHANGED keys
    BY <2>1 DEF TypeOK
  <2>2. ASSUME NEW k \in Keys, NEW b \in BOOLEAN,
               \/ keys' = [keys EXCEPT ![k].disabled = b]
               \/ keys' = [keys EXCEPT ![k].expired = b]
        PROVE  keys' \in [Keys -> [disabled : BOOLEAN, expired : BOOLEAN,
                                   limit : Limits \cup {Unlimited}]]
    BY <2>2 DEF TypeOK
  <2>3. ASSUME NEW k \in Keys, NEW limit \in Limits,
               keys' = [keys EXCEPT ![k].limit = limit]
        PROVE  keys' \in [Keys -> [disabled : BOOLEAN, expired : BOOLEAN,
                                   limit : Limits \cup {Unlimited}]]
    BY <2>3 DEF TypeOK
  <2> QED BY <2>1, <2>2, <2>3
          DEF Disable, EditLimit, Lapse, Freeze, ChangeCoverage
<1>5. TypeOK'
  BY <1>1, <1>3, <1>4
     DEF Disable, EditLimit, Lapse, Freeze, ChangeCoverage, TypeOK
<1> QED BY <1>2, <1>5

\* Types and stages hold at the start and after every step.
LEMMA InitStages == Init => TypeOK /\ Stages
<1> SUFFICES ASSUME Init PROVE TypeOK /\ Stages
  OBVIOUS
<1>1. TypeOK
  <2>1. keys \in [Keys -> [disabled : BOOLEAN, expired : BOOLEAN,
                           limit : Limits \cup {Unlimited}]]
    BY DEF Init
  <2>2. disturbed \in 0..Disturbances /\ balance \in Int
    BY CeilingsAssumption DEF Init
  <2> QED BY <2>1, <2>2 DEF Init, TypeOK, Postures
<1>2. Stages
  BY DEF Init, Stages, Stage
<1> QED BY <1>1, <1>2

LEMMA NextStages == TypeOK /\ Stages /\ [Next]_vars => TypeOK' /\ Stages'
<1> SUFFICES ASSUME TypeOK, Stages, [Next]_vars PROVE TypeOK' /\ Stages'
  OBVIOUS
<1>1. ASSUME NEW r \in Requests, Progress(r) PROVE TypeOK' /\ Stages'
  BY <1>1, EarlySteps, StatementSteps, LateSteps DEF Progress
<1>2. CASE UNCHANGED vars
  BY <1>2 DEF vars, TypeOK, Stages, Stage, Usages
<1> QED BY <1>1, <1>2, OutsideSteps DEF Next

-----------------------------------------------------------------------------
(* What may happen to the sums while someone else holds the user's lock.    *)

\* A request's event is new and free of charge, or an older one no younger.
EventEased(q) ==
    /\ events[q] # Nothing => events'[q] # Nothing
    /\ events'[q] # Nothing =>
        \/ events[q] = Nothing /\ events'[q].cost = 0 /\ events'[q].catalog = 0
        \/ /\ events[q] # Nothing
           /\ events'[q].cost = events[q].cost
           /\ events'[q].catalog = events[q].catalog
           /\ events'[q].held = events[q].held /\ events'[q].late = events[q].late
           /\ \A w \in {"minute", "daily", "monthly", "lifetime"} :
                events'[q].age \in Within(w) => events[q].age \in Within(w)

\* A row is an older one, at the same cost, that encumbers no more than before;
\* an expired debt stays.
RowEased(q) ==
    /\ rows'[q] # Nothing =>
        /\ rows[q] # Nothing /\ rows'[q].cost = rows[q].cost
        /\ rows[q].expired => rows'[q].expired
        /\ rows'[q].intent => rows[q].intent \/ ~rows[q].expired
    /\ rows[q] # Nothing /\ rows[q].expired /\ rows[q].intent =>
        rows'[q] # Nothing /\ rows'[q].expired /\ rows'[q].intent

Eased == UNCHANGED shape /\ \A q \in Requests : EventEased(q) /\ RowEased(q)

\* Such a step adds to no sum of spending and to none of reservations.
LEMMA EasedSums ==
    ASSUME TypeOK, TypeOK', Eased
    PROVE  /\ \A k \in Keys, w \in {"daily", "monthly", "lifetime"} :
                Spent(k, w)' <= Spent(k, w)
           /\ SpentByUser' <= SpentByUser
           /\ \A k \in Keys : Held(EncumberingKey(k))' <= Held(EncumberingKey(k))
           /\ Held(Encumbering)' <= Held(Encumbering)
           /\ LiveCount' <= LiveCount
<1>1. IsFiniteSet(Requests)
  BY RequestsAssumption
<1>2. \A q \in Requests : /\ events[q] # Nothing => events[q].cost \in Nat
                          /\ events'[q] # Nothing => events'[q].cost \in Nat
                          /\ rows[q] # Nothing => rows[q].cost \in Nat
                          /\ rows'[q] # Nothing => rows'[q].cost \in Nat
  BY DEF TypeOK, Events, Reservations
<1>3. UNCHANGED shape /\ \A q \in Requests : EventEased(q) /\ RowEased(q)
  BY DEF Eased
<1>4. ASSUME NEW w \in {"minute", "daily", "monthly", "lifetime"}, NEW q \in EventOfUser(w)'
      PROVE  /\ q \in Requests /\ events'[q].cost \in Nat
             /\ \/ events'[q].cost = 0
                \/ q \in EventOfUser(w) /\ events'[q].cost = events[q].cost
  BY <1>2, <1>3, <1>4 DEF EventOfUser, EventEased
<1>5. ASSUME NEW q \in Encumbering'
      PROVE  /\ q \in Requests /\ rows'[q].cost \in Nat
             /\ q \in Encumbering /\ rows'[q].cost = rows[q].cost
  BY <1>2, <1>3, <1>5 DEF Encumbering, Live, RowEased
<1>6. ASSUME NEW w \in {"minute", "daily", "monthly", "lifetime"}, NEW S, S \subseteq EventOfUser(w), NEW T,
             T \subseteq EventOfUser(w)',
             \A q \in T : q \in EventOfUser(w) => q \in S
      PROVE  SumFunction([q \in T |-> events'[q].cost])
               <= SumFunction([q \in S |-> events[q].cost])
  <2> DEFINE g == [q \in T |-> events'[q].cost]
             h == [q \in S |-> events[q].cost]
  <2>1. T \subseteq Requests /\ S \subseteq Requests
    BY <1>6 DEF EventOfUser
  <2>2. \A q \in S : h[q] \in Nat
    BY <1>2, <1>6 DEF EventOfUser
  <2>3. \A q \in T : g[q] \in Nat /\ (g[q] = 0 \/ (q \in S /\ g[q] <= h[q]))
    <3> SUFFICES ASSUME NEW q \in T
                 PROVE  g[q] \in Nat /\ (g[q] = 0 \/ (q \in S /\ g[q] <= h[q]))
      OBVIOUS
    <3>1. q \in EventOfUser(w)'
      BY <1>6
    <3>2. /\ events'[q].cost \in Nat
          /\ \/ events'[q].cost = 0
             \/ q \in EventOfUser(w) /\ events'[q].cost = events[q].cost
      BY <1>4, <3>1
    <3>3. q \in EventOfUser(w) => q \in S
      BY <1>6
    <3> QED BY <3>2, <3>3
  <2>4. DOMAIN g = T /\ DOMAIN h = S
    OBVIOUS
  <2> HIDE DEF g, h
  <2>5. SumFunction(g) <= SumFunction(h)
    BY <1>1, <2>1, <2>2, <2>3, <2>4, SumDominated
  <2> QED BY <2>5 DEF g, h
<1>7. ASSUME NEW S, S \subseteq Encumbering, NEW T, T \subseteq Encumbering',
             \A q \in T : q \in Encumbering => q \in S
      PROVE  SumFunction([q \in T |-> rows'[q].cost])
               <= SumFunction([q \in S |-> rows[q].cost])
  <2> DEFINE g == [q \in T |-> rows'[q].cost]
             h == [q \in S |-> rows[q].cost]
  <2>1. T \subseteq Requests /\ S \subseteq Requests
    BY <1>7 DEF Encumbering
  <2>2. \A q \in S : h[q] \in Nat
    BY <1>2, <1>7 DEF Encumbering, Live
  <2>3. \A q \in T : g[q] \in Nat /\ (g[q] = 0 \/ (q \in S /\ g[q] <= h[q]))
    <3> SUFFICES ASSUME NEW q \in T
                 PROVE  g[q] \in Nat /\ (g[q] = 0 \/ (q \in S /\ g[q] <= h[q]))
      OBVIOUS
    <3>1. q \in Encumbering'
      BY <1>7
    <3>2. /\ rows'[q].cost \in Nat /\ q \in Encumbering
          /\ rows'[q].cost = rows[q].cost
      BY <1>5, <3>1
    <3>3. q \in S
      BY <1>7, <3>2
    <3> QED BY <3>2, <3>3
  <2>4. DOMAIN g = T /\ DOMAIN h = S
    OBVIOUS
  <2> HIDE DEF g, h
  <2>5. SumFunction(g) <= SumFunction(h)
    BY <1>1, <2>1, <2>2, <2>3, <2>4, SumDominated
  <2> QED BY <2>5 DEF g, h
<1>8. ASSUME NEW k \in Keys, NEW w \in {"daily", "monthly", "lifetime"}
      PROVE  Spent(k, w)' <= Spent(k, w)
  <2> DEFINE S == Event(k, w)
             T == Event(k, w)'
  <2>1. S \subseteq EventOfUser(w) /\ T \subseteq EventOfUser(w)'
    BY DEF Event
  <2>2. \A q \in T : q \in EventOfUser(w) => q \in S
    BY <1>3 DEF Event
  <2> HIDE DEF S, T
  <2>3. SumFunction([q \in T |-> events'[q].cost])
          <= SumFunction([q \in S |-> events[q].cost])
    BY <1>6, <2>1, <2>2
  <2> QED BY <2>3 DEF S, T, Spent
<1>9. SpentByUser' <= SpentByUser
  <2> DEFINE S == EventOfUser("monthly")
             T == EventOfUser("monthly")'
  <2> HIDE DEF S, T
  <2>1. S \subseteq EventOfUser("monthly") /\ T \subseteq EventOfUser("monthly")'
    BY DEF S, T
  <2>2. \A q \in T : q \in EventOfUser("monthly") => q \in S
    BY DEF S
  <2>3. SumFunction([q \in T |-> events'[q].cost])
          <= SumFunction([q \in S |-> events[q].cost])
    BY <1>6, <2>1, <2>2
  <2> QED BY <2>3 DEF S, T, SpentByUser
<1>10. ASSUME NEW k \in Keys
       PROVE  Held(EncumberingKey(k))' <= Held(EncumberingKey(k))
  <2> DEFINE S == EncumberingKey(k)
             T == EncumberingKey(k)'
  <2>1. S \subseteq Encumbering /\ T \subseteq Encumbering'
    BY DEF EncumberingKey
  <2>2. \A q \in T : q \in Encumbering => q \in S
    BY <1>3 DEF EncumberingKey
  <2> HIDE DEF S, T
  <2>3. SumFunction([q \in T |-> rows'[q].cost])
          <= SumFunction([q \in S |-> rows[q].cost])
    BY <1>7, <2>1, <2>2
  <2> QED BY <2>3 DEF S, T, Held
<1>11. Held(Encumbering)' <= Held(Encumbering)
  <2> DEFINE S == Encumbering
             T == Encumbering'
  <2> HIDE DEF S, T
  <2>1. S \subseteq Encumbering /\ T \subseteq Encumbering'
    BY DEF S, T
  <2>2. \A q \in T : q \in Encumbering => q \in S
    BY DEF S
  <2>3. SumFunction([q \in T |-> rows'[q].cost])
          <= SumFunction([q \in S |-> rows[q].cost])
    BY <1>7, <2>1, <2>2
  <2> QED BY <2>3 DEF S, T, Held
<1>12. LiveCount' <= LiveCount
  <2> DEFINE S == {q \in Requests : Live(q)}
             T == {q \in Requests : Live(q)'}
  <2>1. S \subseteq Requests /\ T \subseteq S
    BY <1>3 DEF Live, RowEased
  <2>2. IsFiniteSet(S)
    BY <1>1, <2>1, FS_Subset
  <2>3. LiveCount = Cardinality(S) /\ LiveCount' = Cardinality(T)
    BY DEF LiveCount
  <2> HIDE DEF S, T
  <2> QED BY <2>1, <2>2, <2>3, FS_Subset
<1> QED BY <1>8, <1>9, <1>10, <1>11, <1>12

\* Every step eases the sums but a settle, and the admission of a request that
\* reserves.
LEMMA StepsEase ==
    ASSUME TypeOK, Stages, [Next]_vars,
           \A r \in Requests : ~Settle(r) /\ ~(Admit(r) /\ ~shape[r].free)
    PROVE  Eased
<1>1. ASSUME NEW q \in Requests, events'[q] = events[q] PROVE EventEased(q)
  BY <1>1 DEF EventEased
<1>2. ASSUME NEW q \in Requests, rows'[q] = rows[q] PROVE RowEased(q)
  BY <1>2 DEF RowEased
<1>3. ASSUME UNCHANGED <<shape, rows, events>> PROVE Eased
  BY <1>1, <1>2, <1>3 DEF Eased
<1>4. ASSUME NEW r \in Requests, Progress(r) PROVE Eased
  <2>1. CASE \/ ReadCoverage(r) \/ BuildRoute(r) \/ TakeUserLock(r)
             \/ GiveUpWaiting(r) \/ CheckKey(r) \/ KeyRefused(r)
             \/ CheckFreeze(r) \/ FrozenOut(r) \/ ReadHeld(r) \/ GatedOut(r)
             \/ Die(r)
    BY <1>3, <2>1 DEF ReadCoverage, BuildRoute, TakeUserLock, GiveUpWaiting,
         CheckKey, KeyRefused, CheckFreeze, FrozenOut, ReadHeld, GatedOut,
         Die, Refuse
  <2>2. CASE ReadSettled(r)
    <3>1. \A q \in Requests :
             \/ rows'[q] = rows[q]
             \/ /\ rows'[q] = Nothing
                /\ rows[q] # Nothing => ~(rows[q].expired /\ rows[q].intent)
      BY <2>2 DEF ReadSettled, Swept, TypeOK
    <3>2. \A q \in Requests : RowEased(q)
      BY <3>1 DEF RowEased
    <3> QED BY <1>1, <2>2, <3>2 DEF Eased, ReadSettled
  <2>3. CASE Admit(r)
    <3>1. /\ shape[r].free /\ rows' = [rows EXCEPT ![r] = Nothing]
          /\ rows[r] = Nothing
      BY <2>3 DEF Admit, Reservation, Stages, Stage
    <3>2. \A q \in Requests : rows'[q] = rows[q]
      BY <3>1 DEF TypeOK
    <3>3. \A q \in Requests : RowEased(q)
      BY <1>2, <3>2
    <3> QED BY <1>1, <2>3, <3>3 DEF Eased, Admit
  <2>4. CASE Answer(r)
    <3>1. \A q \in Requests : RowEased(q)
      <4> SUFFICES ASSUME NEW q \in Requests PROVE RowEased(q)
        OBVIOUS
      <4>1. CASE q = r /\ ~shape[r].free
        <5>1. rows[r] \in Reservations /\ ~rows[r].expired /\ rows[r] # Nothing
          BY <2>4, <4>1 DEF Answer, Move, TypeOK, Stages, Stage
        <5>2. rows'[r] = [rows[r] EXCEPT !.intent = TRUE]
          BY <2>4, <4>1 DEF Answer, TypeOK
        <5>3. rows'[r].cost = rows[r].cost
          BY <5>1, <5>2 DEF Reservations
        <5> QED BY <4>1, <5>1, <5>3 DEF RowEased
      <4>2. CASE ~(q = r /\ ~shape[r].free)
        <5>1. rows'[q] = rows[q]
          BY <2>4, <4>2 DEF Answer, TypeOK
        <5> QED BY <1>2, <5>1
      <4> QED BY <4>1, <4>2
    <3> QED BY <1>1, <2>4, <3>1 DEF Eased, Answer
  <2>5. CASE Observe(r)
    <3>1. \A q \in Requests : EventEased(q)
      <4> SUFFICES ASSUME NEW q \in Requests, events'[q] # events[q]
                   PROVE  EventEased(q)
        BY <1>1
      <4> DEFINE e == [cost |-> 0, tokens |-> owed[r].usage.tokens,
                       catalog |-> 0, held |-> 0, age |-> "minute",
                       late |-> FALSE]
      <4>1. events' = [events EXCEPT ![r] = e]
        BY <2>5 DEF Observe
      <4>2. e.cost = 0 /\ e.catalog = 0
        OBVIOUS
      <4> HIDE DEF e
      <4>3. q = r /\ events'[q] = e
        BY <4>1 DEF TypeOK
      <4>4. events[q] = Nothing
        BY <2>5, <4>3 DEF Observe, Move, Stages, Stage
      <4> QED BY <4>2, <4>3, <4>4 DEF EventEased
    <3> QED BY <1>2, <2>5, <3>1 DEF Eased, Observe
  <2>6. CASE Expire(r)
    <3>1. rows[r] \in Reservations
      BY <2>6 DEF Expire, TypeOK
    <3>2. rows'[r] = [rows[r] EXCEPT !.expired = TRUE]
      BY <2>6 DEF Expire, TypeOK
    <3>3. rows'[r].cost = rows[r].cost /\ rows'[r].expired
          /\ rows'[r].intent = rows[r].intent
      BY <3>1, <3>2 DEF Reservations
    <3>4. \A q \in Requests : q # r => rows'[q] = rows[q]
      BY <2>6 DEF Expire, TypeOK
    <3>5. \A q \in Requests : RowEased(q)
      BY <1>2, <2>6, <3>3, <3>4 DEF RowEased, Expire
    <3> QED BY <1>1, <2>6, <3>5 DEF Eased, Expire
  <2>7. CASE Age(r)
    <3>1. PICK i \in 1..3 : /\ events[r].age = Ages[i]
                            /\ events' = [events EXCEPT ![r].age = Ages[i + 1]]
      BY <2>7 DEF Age
    <3>2. events[r] \in Events /\ events[r] # Nothing
      BY <2>7 DEF Age, TypeOK
    <3>3. events'[r] = [events[r] EXCEPT !.age = Ages[i + 1]]
      BY <3>1 DEF TypeOK
    <3>4. /\ events'[r].cost = events[r].cost
          /\ events'[r].catalog = events[r].catalog
          /\ events'[r].held = events[r].held
          /\ events'[r].late = events[r].late
          /\ events'[r].age = Ages[i + 1]
      BY <3>2, <3>3 DEF Events
    <3>5. \A w \in {"minute", "daily", "monthly", "lifetime"} :
             Ages[i + 1] \in Within(w) => Ages[i] \in Within(w)
      <4>1. i \in {1, 2, 3}
        OBVIOUS
      <4> QED BY <4>1 DEF Ages, Within
    <3>6. EventEased(r)
      <4>1. events'[r] # Nothing
        <5>1. Ages[i + 1] \in {"minute", "day", "month", "older"}
          BY DEF Ages
        <5>2. events'[r] \in Events
          BY <3>2, <3>3, <5>1 DEF Events
        <5> QED BY <5>2, NothingAssumption
      <4> QED BY <3>1, <3>2, <3>4, <3>5, <4>1 DEF EventEased
    <3>7. \A q \in Requests : q # r => events'[q] = events[q]
      BY <3>1 DEF TypeOK
    <3> QED BY <1>1, <1>2, <2>7, <3>6, <3>7 DEF Eased, Age
  <2> QED BY <1>4, <2>1, <2>2, <2>3, <2>4, <2>5, <2>6, <2>7 DEF Progress
<1>5. ASSUME \/ \E k \in Keys : Disable(k) \/ EditLimit(k) \/ Lapse(k)
             \/ Freeze \/ ChangeCoverage
      PROVE  Eased
  BY <1>3, <1>5 DEF Disable, EditLimit, Lapse, Freeze, ChangeCoverage
<1>6. CASE UNCHANGED vars
  BY <1>3, <1>6 DEF vars
<1> QED BY <1>4, <1>5, <1>6 DEF Next

-----------------------------------------------------------------------------
(* What an admission has read stays on the safe side until it commits.     *)

\* The row of its key is a request's own from its key statement on, and the
\* user is from the advisory lock on, unless it is on the free lane.
Locked ==
    \A r \in Requests :
        /\ pc[r] \in InTransaction => keyLock[KeyOf(r)] = r
        /\ pc[r] \in InTransaction \cup {"locked"} /\ ~shape[r].free =>
             userLock = r

\* The limit an admission read with its key.
LimitSeen(r) ==
    CASE pc[r] \in {"keyed", "unfrozen"} -> seen[r].limit
      [] pc[r] = "summed" -> seen[r].caps.limit
      [] pc[r] = "counted" -> seen[r].settled.caps.limit

\* The key is as it was read.
KeyAsSeen ==
    \A r \in Requests :
        pc[r] \in InTransaction =>
            ~keys[KeyOf(r)].disabled /\ keys[KeyOf(r)].limit = LimitSeen(r)

\* No more is settled, and no more held, than was read.
SettledStands(k, s) ==
    /\ Spent(k, "monthly") <= s.spent
    /\ SpentByUser <= s.userSpent
    /\ s.caps.limit # Unlimited =>
         Spent(k, s.caps.limit.window) <= s.windowSpent

HeldStands(k, c) ==
    /\ Held(EncumberingKey(k)) <= c.held
    /\ Held(Encumbering) <= c.userHeld
    /\ LiveCount <= c.live

FiguresStand ==
    \A r \in Requests :
        ~shape[r].free =>
            /\ pc[r] = "summed" => SettledStands(KeyOf(r), seen[r])
            /\ pc[r] = "counted" => /\ SettledStands(KeyOf(r), seen[r].settled)
                                    /\ HeldStands(KeyOf(r), seen[r])

IInv == TypeOK /\ Stages /\ Locked /\ KeyAsSeen /\ FiguresStand

\* Both locks are held by the one request that took them, to its end.
LEMMA NextLocked ==
    ASSUME TypeOK, Stages, Locked, [Next]_vars
    PROVE  Locked'
<1> USE DEF Locked, InTransaction
<1>1. ASSUME UNCHANGED <<pc, shape, keyLock, userLock>> PROVE Locked'
  BY <1>1 DEF KeyOf
<1>2. ASSUME NEW r \in Requests, Progress(r) PROVE Locked'
  <2>1. CASE ReadCoverage(r) \/ BuildRoute(r)
    BY <2>1 DEF ReadCoverage, BuildRoute, Move, TypeOK, KeyOf
  <2>2. CASE TakeUserLock(r)
    <3>1. /\ \A q \in Requests : q # r => pc'[q] = pc[q]
          /\ pc'[r] = "locked" /\ UNCHANGED <<shape, keyLock>>
          /\ IF shape[r].free THEN UNCHANGED userLock
             ELSE userLock = Nothing /\ userLock' = r
      BY <2>2 DEF TakeUserLock, Move, TypeOK
    <3> QED BY <3>1, RequestsAssumption DEF KeyOf
  <2>3. ASSUME Release(r), pc'[r] \in {"refused", "admitted"}, UNCHANGED shape,
               \A q \in Requests : q # r => pc'[q] = pc[q]
        PROVE  Locked'
    <3>1. \A k \in Keys : keyLock'[k] = IF keyLock[k] = r THEN Nothing ELSE keyLock[k]
      BY <2>3 DEF Release
    <3>2. \A q \in Requests : KeyOf(q) \in Keys /\ KeyOf(q)' = KeyOf(q)
      BY <2>3, ShapeTyped DEF KeyOf
    <3> QED BY <2>3, <3>1, <3>2 DEF Release
  <2>4. CASE GiveUpWaiting(r) \/ KeyRefused(r) \/ FrozenOut(r) \/ GatedOut(r)
    <3>1. Refuse(r)
      BY <2>4 DEF GiveUpWaiting, KeyRefused, FrozenOut, GatedOut
    <3> QED BY <2>3, <3>1 DEF Refuse, TypeOK
  <2>5. CASE Admit(r)
    BY <2>3, <2>5 DEF Admit, TypeOK
  <2>6. CASE CheckKey(r)
    <3>1. /\ \A q \in Requests : q # r => pc'[q] = pc[q]
          /\ pc[r] = "locked" /\ pc'[r] = "keyed" /\ UNCHANGED <<shape, userLock>>
          /\ keyLock[KeyOf(r)] = Nothing
          /\ keyLock' = [keyLock EXCEPT ![KeyOf(r)] = r]
      BY <2>6 DEF CheckKey, RowLocked, TypeOK
    <3>2. \A q \in Requests : KeyOf(q) \in Keys /\ KeyOf(q)' = KeyOf(q)
      BY <3>1, ShapeTyped DEF KeyOf
    <3>3. \A k \in Keys : keyLock'[k] = IF k = KeyOf(r) THEN r ELSE keyLock[k]
      BY <3>1 DEF TypeOK
    <3> QED BY <3>1, <3>2, <3>3, RequestsAssumption
  <2>7. CASE CheckFreeze(r) \/ ReadSettled(r) \/ ReadHeld(r)
    BY <2>7 DEF CheckFreeze, ReadSettled, ReadHeld, Move, TypeOK, KeyOf
  <2>8. CASE Answer(r) \/ Settle(r) \/ Observe(r) \/ Die(r)
    BY <2>8 DEF Answer, Settle, Observe, Die, Move, TypeOK, KeyOf
  <2>9. CASE Expire(r) \/ Age(r)
    BY <1>1, <2>9 DEF Expire, Age
  <2> QED BY <1>2, <2>1, <2>2, <2>4, <2>5, <2>6, <2>7, <2>8, <2>9 DEF Progress
<1>3. ASSUME \/ \E k \in Keys : Disable(k) \/ EditLimit(k) \/ Lapse(k)
             \/ Freeze \/ ChangeCoverage
      PROVE  Locked'
  BY <1>1, <1>3 DEF Disable, EditLimit, Lapse, Freeze, ChangeCoverage
<1>4. CASE UNCHANGED vars
  BY <1>1, <1>4 DEF vars
<1> QED BY <1>2, <1>3, <1>4 DEF Next

\* A revocation and an edit wait for the row, so neither comes between.
LEMMA NextKeyAsSeen ==
    ASSUME TypeOK, Stages, Locked, KeyAsSeen, [Next]_vars
    PROVE  KeyAsSeen'
<1> SUFFICES ASSUME NEW q \in Requests, pc'[q] \in InTransaction
             PROVE  /\ ~keys'[KeyOf(q)'].disabled
                    /\ keys'[KeyOf(q)'].limit = LimitSeen(q)'
  BY DEF KeyAsSeen
<1>1. KeyOf(q) \in Keys
  BY ShapeTyped
<1>2. UNCHANGED shape
  BY DEF Next, vars, Progress, ReadCoverage, BuildRoute, TakeUserLock,
         GiveUpWaiting, CheckKey, KeyRefused, CheckFreeze, FrozenOut,
         ReadSettled, ReadHeld, Admit, GatedOut, Answer, Settle, Observe, Die,
         Expire, Age, Refuse, Disable, EditLimit, Lapse, Freeze, ChangeCoverage
<1>3. KeyOf(q)' = KeyOf(q)
  BY <1>2 DEF KeyOf
<1>4. CASE pc[q] \in InTransaction /\ pc'[q] = pc[q] /\ seen'[q] = seen[q]
  <2>1. ~keys[KeyOf(q)].disabled /\ keys[KeyOf(q)].limit = LimitSeen(q)
    BY <1>4 DEF KeyAsSeen
  <2>2. LimitSeen(q)' = LimitSeen(q)
    BY <1>4 DEF LimitSeen
  <2>3. keyLock[KeyOf(q)] = q /\ q # Nothing
    BY <1>4, RequestsAssumption DEF Locked
  <2>4. /\ keys'[KeyOf(q)].disabled = keys[KeyOf(q)].disabled
        /\ keys'[KeyOf(q)].limit = keys[KeyOf(q)].limit
    <3>1. CASE UNCHANGED keys
      BY <3>1
    <3>2. ASSUME NEW k \in Keys, Disable(k) \/ EditLimit(k)
          PROVE  keys'[KeyOf(q)] = keys[KeyOf(q)]
      <4>1. k # KeyOf(q)
        BY <2>3, <3>2 DEF Disable, EditLimit
      <4> QED BY <1>1, <3>2, <4>1 DEF Disable, EditLimit, TypeOK
    <3>3. ASSUME NEW k \in Keys, Lapse(k)
          PROVE  /\ keys'[KeyOf(q)].disabled = keys[KeyOf(q)].disabled
                 /\ keys'[KeyOf(q)].limit = keys[KeyOf(q)].limit
      <4>1. keys' = [keys EXCEPT ![k].expired = TRUE]
        BY <3>3 DEF Lapse
      <4> QED BY <1>1, <4>1 DEF TypeOK
    <3> QED BY <3>1, <3>2, <3>3 DEF Next, vars, Progress, ReadCoverage,
         BuildRoute, TakeUserLock, GiveUpWaiting, CheckKey, KeyRefused,
         CheckFreeze, FrozenOut, ReadSettled, ReadHeld, Admit, GatedOut, Answer,
         Settle, Observe, Die, Expire, Age, Refuse, Freeze, ChangeCoverage
  <2> QED BY <1>3, <2>1, <2>2, <2>4
<1>5. CASE CheckKey(q)
  <2>1. seen'[q].limit = keys[KeyOf(q)].limit /\ pc'[q] = "keyed"
    BY <1>5 DEF CheckKey, TypeOK
  <2>2. ~keys[KeyOf(q)].disabled /\ UNCHANGED keys
    BY <1>5 DEF CheckKey, Presentable
  <2> QED BY <1>3, <2>1, <2>2 DEF LimitSeen
<1>6. CASE CheckFreeze(q) \/ ReadSettled(q) \/ ReadHeld(q)
  <2>1. pc[q] \in InTransaction /\ UNCHANGED keys
    BY <1>6 DEF CheckFreeze, ReadSettled, ReadHeld, Move, InTransaction
  <2>2. ~keys[KeyOf(q)].disabled /\ keys[KeyOf(q)].limit = LimitSeen(q)
    BY <2>1 DEF KeyAsSeen
  <2>3. LimitSeen(q)' = LimitSeen(q)
    BY <1>6 DEF CheckFreeze, ReadSettled, ReadHeld, Move, LimitSeen, TypeOK
  <2> QED BY <1>3, <2>1, <2>2, <2>3
<1>7. \/ pc[q] \in InTransaction /\ pc'[q] = pc[q] /\ seen'[q] = seen[q]
      \/ CheckKey(q) \/ CheckFreeze(q) \/ ReadSettled(q) \/ ReadHeld(q)
  <2>1. CASE UNCHANGED <<pc, seen>>
    BY <2>1
  <2>2. ASSUME NEW r \in Requests, r # q,
               \A x \in Requests : x # r => pc'[x] = pc[x] /\ seen'[x] = seen[x]
        PROVE  pc[q] \in InTransaction /\ pc'[q] = pc[q] /\ seen'[q] = seen[q]
    BY <2>2
  <2>3. ASSUME NEW r \in Requests, Progress(r)
        PROVE  \A x \in Requests : x # r => pc'[x] = pc[x] /\ seen'[x] = seen[x]
    BY <2>3 DEF TypeOK, Progress, ReadCoverage, BuildRoute, TakeUserLock,
         GiveUpWaiting, CheckKey, KeyRefused, CheckFreeze, FrozenOut,
         ReadSettled, ReadHeld, Admit, GatedOut, Answer, Settle, Observe, Die,
         Expire, Age, Refuse, Release, Move
  <2>4. ASSUME Progress(q)
        PROVE  \/ UNCHANGED <<pc, seen>>
               \/ CheckKey(q) \/ CheckFreeze(q) \/ ReadSettled(q) \/ ReadHeld(q)
    <3>1. CASE Expire(q) \/ Age(q)
      BY <3>1 DEF Expire, Age
    <3>2. CASE \/ ReadCoverage(q) \/ BuildRoute(q) \/ TakeUserLock(q)
               \/ GiveUpWaiting(q) \/ KeyRefused(q) \/ FrozenOut(q)
               \/ Admit(q) \/ GatedOut(q) \/ Answer(q) \/ Settle(q)
               \/ Observe(q) \/ Die(q)
      <4>1. pc'[q] \notin InTransaction
        BY <3>2 DEF TypeOK, ReadCoverage, BuildRoute, TakeUserLock,
             GiveUpWaiting, KeyRefused, FrozenOut, Admit, GatedOut, Answer,
             Settle, Observe, Die, Refuse, Move, InTransaction
      <4> QED BY <4>1
    <3> QED BY <2>4, <3>1, <3>2 DEF Progress
  <2>5. ASSUME \/ \E k \in Keys : Disable(k) \/ EditLimit(k) \/ Lapse(k)
               \/ Freeze \/ ChangeCoverage
        PROVE  UNCHANGED <<pc, seen>>
    BY <2>5 DEF Disable, EditLimit, Lapse, Freeze, ChangeCoverage
  <2> QED BY <2>1, <2>2, <2>3, <2>4, <2>5 DEF Next, vars
<1> QED BY <1>4, <1>5, <1>6, <1>7

\* A request that reserves keeps every settle and every other such admission
\* out, from its lock on.
LEMMA LockKeepsOut ==
    ASSUME TypeOK, Stages, Locked, [Next]_vars, NEW q \in Requests,
           ~shape[q].free, pc[q] \in InTransaction, pc'[q] \in InTransaction
    PROVE  Eased
<1>1. userLock = q /\ q # Nothing
  BY RequestsAssumption DEF Locked
<1>2. ASSUME NEW r \in Requests PROVE ~Settle(r)
  BY <1>1 DEF Settle, SettleSerialized
<1>3. ASSUME NEW r \in Requests, Admit(r), ~shape[r].free PROVE FALSE
  <2>1. userLock = r
    BY <1>3 DEF Admit, Locked, InTransaction
  <2>2. pc'[q] = "admitted"
    BY <1>1, <1>3, <2>1 DEF Admit, TypeOK
  <2> QED BY <2>2 DEF InTransaction
<1> QED BY <1>2, <1>3, StepsEase

\* What stood before a step that eases the sums stands after it.
LEMMA EasedStands ==
    ASSUME TypeOK, TypeOK', Eased, NEW k \in Keys
    PROVE  /\ \A s \in Settled : SettledStands(k, s) => SettledStands(k, s)'
           /\ \A c \in Counted : HeldStands(k, c) => HeldStands(k, c)'
<1>1. ASSUME NEW s \in Settled, SettledStands(k, s)
      PROVE  SettledStands(k, s)'
  <2>1. /\ s.spent \in Nat /\ s.userSpent \in Nat /\ s.windowSpent \in Nat
        /\ s.caps \in Ceilings
    BY DEF Settled
  <2>2. ASSUME NEW w \in {"daily", "monthly", "lifetime"}, NEW n \in Nat,
               Spent(k, w) <= n
        PROVE  Spent(k, w)' <= n
    <3>1. Spent(k, w)' <= Spent(k, w) /\ Spent(k, w) \in Nat
      BY EasedSums, SumsTyped DEF SumsNatural
    <3>2. Spent(k, w)' \in Nat
      BY SumsTypedNext DEF SumsNatural
    <3> QED BY <2>2, <3>1, <3>2
  <2>3. SpentByUser' <= s.userSpent
    <3>1. SpentByUser' <= SpentByUser /\ SpentByUser \in Nat
      BY EasedSums, SumsTyped DEF SumsNatural
    <3>2. SpentByUser' \in Nat /\ SpentByUser <= s.userSpent
      BY <1>1, SumsTypedNext DEF SumsNatural, SettledStands
    <3> QED BY <2>1, <3>1, <3>2
  <2>4. s.caps.limit # Unlimited =>
           s.caps.limit.window \in {"daily", "monthly", "lifetime"}
    BY <2>1, CeilingsAssumption DEF Ceilings, Limit
  <2>5. s.caps.limit # Unlimited =>
           Spent(k, s.caps.limit.window)' <= s.windowSpent
    <3> SUFFICES ASSUME s.caps.limit # Unlimited
                 PROVE  Spent(k, s.caps.limit.window)' <= s.windowSpent
      OBVIOUS
    <3> DEFINE w == s.caps.limit.window
    <3>1. w \in {"daily", "monthly", "lifetime"} /\ Spent(k, w) <= s.windowSpent
      BY <1>1, <2>4 DEF SettledStands
    <3> HIDE DEF w
    <3>2. Spent(k, w)' <= s.windowSpent
      BY <2>1, <2>2, <3>1
    <3> QED BY <3>2 DEF w
  <2>6. Spent(k, "monthly")' <= s.spent
    BY <1>1, <2>1, <2>2 DEF SettledStands
  <2> QED BY <2>3, <2>5, <2>6 DEF SettledStands
<1>2. ASSUME NEW c \in Counted, HeldStands(k, c)
      PROVE  HeldStands(k, c)'
  <2>1. c.held \in Nat /\ c.userHeld \in Nat /\ c.live \in Nat
    BY DEF Counted
  <2> DEFINE mine == Held(EncumberingKey(k))
             all == Held(Encumbering)
  <2>2. /\ EncumberingKey(k) \in SUBSET Encumbering
        /\ Encumbering \in SUBSET Encumbering
    BY DEF EncumberingKey
  <2>3. mine \in Nat /\ all \in Nat /\ LiveCount \in Nat
    BY <2>2, SumsTyped DEF SumsNatural
  <2>4. mine' \in Nat /\ all' \in Nat /\ LiveCount' \in Nat
    <3>1. /\ EncumberingKey(k)' \in SUBSET Encumbering'
          /\ Encumbering' \in SUBSET Encumbering'
      BY DEF EncumberingKey
    <3>2. \A S \in SUBSET Encumbering' :
             SumFunction([q \in S |-> rows'[q].cost]) \in Nat
      BY SumsTypedNext DEF SumsNatural, Held
    <3>3. LiveCount' \in Nat
      BY SumsTypedNext DEF SumsNatural
    <3> DEFINE S == EncumberingKey(k)'
               T == Encumbering'
    <3>4. S \in SUBSET Encumbering' /\ T \in SUBSET Encumbering'
      BY <3>1
    <3> HIDE DEF S, T
    <3>5. /\ SumFunction([q \in S |-> rows'[q].cost]) \in Nat
          /\ SumFunction([q \in T |-> rows'[q].cost]) \in Nat
      BY <3>2, <3>4
    <3> QED BY <3>3, <3>5 DEF Held, S, T
  <2>5. mine' <= mine /\ all' <= all /\ LiveCount' <= LiveCount
    BY EasedSums
  <2>6. mine <= c.held /\ all <= c.userHeld /\ LiveCount <= c.live
    BY <1>2 DEF HeldStands
  <2> HIDE DEF mine, all
  <2>7. mine' <= c.held /\ all' <= c.userHeld /\ LiveCount' <= c.live
    BY <2>1, <2>3, <2>4, <2>5, <2>6
  <2> QED BY <2>7 DEF mine, all, HeldStands
<1> QED BY <1>1, <1>2

\* So what an admission has read is never less than what there is.
LEMMA NextFiguresStand ==
    ASSUME TypeOK, TypeOK', Stages, Locked, FiguresStand, [Next]_vars
    PROVE  FiguresStand'
<1> SUFFICES ASSUME NEW q \in Requests, ~shape'[q].free,
                    pc'[q] \in {"summed", "counted"}
             PROVE  /\ pc'[q] = "summed" => SettledStands(KeyOf(q), seen[q])'
                    /\ pc'[q] = "counted" =>
                         /\ SettledStands(KeyOf(q), seen[q].settled)'
                         /\ HeldStands(KeyOf(q), seen[q])'
  BY DEF FiguresStand
<1>1. PICK k \in Keys : k = KeyOf(q)
  BY ShapeTyped
<1>2. UNCHANGED shape
  BY DEF Next, vars, Progress, ReadCoverage, BuildRoute, TakeUserLock,
         GiveUpWaiting, CheckKey, KeyRefused, CheckFreeze, FrozenOut,
         ReadSettled, ReadHeld, Admit, GatedOut, Answer, Settle, Observe, Die,
         Expire, Age, Refuse, Disable, EditLimit, Lapse, Freeze, ChangeCoverage
<1>3. KeyOf(q) = k /\ KeyOf(q)' = k /\ ~shape[q].free
  BY <1>1, <1>2 DEF KeyOf
<1>4. \/ pc'[q] = pc[q] /\ seen'[q] = seen[q]
      \/ ReadSettled(q) \/ ReadHeld(q)
  <2>1. ASSUME NEW r \in Requests, r # q, Progress(r)
        PROVE  pc'[q] = pc[q] /\ seen'[q] = seen[q]
    BY <2>1 DEF TypeOK, Progress, ReadCoverage, BuildRoute, TakeUserLock,
         GiveUpWaiting, CheckKey, KeyRefused, CheckFreeze, FrozenOut,
         ReadSettled, ReadHeld, Admit, GatedOut, Answer, Settle, Observe, Die,
         Expire, Age, Refuse, Release, Move
  <2>2. ASSUME Progress(q)
        PROVE  \/ pc'[q] = pc[q] /\ seen'[q] = seen[q]
               \/ ReadSettled(q) \/ ReadHeld(q)
    BY <2>2 DEF TypeOK, Progress, ReadCoverage, BuildRoute, TakeUserLock,
         GiveUpWaiting, CheckKey, KeyRefused, CheckFreeze, FrozenOut, Admit,
         GatedOut, Answer, Settle, Observe, Die, Expire, Age, Refuse, Move
  <2> QED BY <2>1, <2>2 DEF Next, vars, Disable, EditLimit, Lapse, Freeze,
             ChangeCoverage
<1>5. Eased
  <2>1. pc[q] \in InTransaction /\ pc'[q] \in InTransaction
    BY <1>4 DEF ReadSettled, ReadHeld, Move, InTransaction
  <2> QED BY <1>3, <2>1, LockKeepsOut
<1>6. CASE pc'[q] = pc[q] /\ seen'[q] = seen[q]
  <2>1. CASE pc[q] = "summed"
    <3>1. seen[q] \in Settled /\ SettledStands(k, seen[q])
      BY <1>3, <2>1 DEF Stages, Stage, FiguresStand
    <3>2. \A x \in Settled : SettledStands(k, x) => SettledStands(k, x)'
      BY <1>5, EasedStands
    <3>3. SettledStands(KeyOf(q), seen[q])'
      BY <1>3, <1>6, <3>1, <3>2 DEF SettledStands
    <3> QED BY <1>6, <2>1, <3>3
  <2>2. CASE pc[q] = "counted"
    <3>1. /\ seen[q] \in Counted /\ seen[q].settled \in Settled
          /\ SettledStands(k, seen[q].settled) /\ HeldStands(k, seen[q])
      BY <1>3, <2>2 DEF Stages, Stage, FiguresStand, Counted
    <3>2. /\ \A x \in Settled : SettledStands(k, x) => SettledStands(k, x)'
          /\ \A x \in Counted : HeldStands(k, x) => HeldStands(k, x)'
      BY <1>5, EasedStands
    <3>3. SettledStands(KeyOf(q), seen[q].settled)'
      BY <1>3, <1>6, <3>1, <3>2 DEF SettledStands
    <3>4. HeldStands(KeyOf(q), seen[q])'
      BY <1>3, <1>6, <3>1, <3>2 DEF HeldStands
    <3> QED BY <1>6, <2>2, <3>3, <3>4
  <2> QED BY <1>6, <2>1, <2>2
<1>7. CASE ReadSettled(q)
  <2> DEFINE window == IF seen[q].limit = Unlimited THEN "monthly"
                       ELSE seen[q].limit.window
             s == seen'[q]
  <2>1. seen[q] \in Ceilings /\ pc'[q] = "summed" /\ UNCHANGED events
    BY <1>7 DEF ReadSettled, Move, Stages, Stage, TypeOK
  <2>2. /\ s.caps = seen[q] /\ s.spent = Spent(k, "monthly")
        /\ s.userSpent = SpentByUser /\ s.windowSpent = Spent(k, window)
    BY <1>3, <1>7 DEF ReadSettled, TypeOK
  <2>3. window \in {"daily", "monthly", "lifetime"}
    BY <2>1, CeilingsAssumption DEF Ceilings, Limit
  <2>4. /\ Spent(k, "monthly") \in Nat /\ SpentByUser \in Nat
        /\ Spent(k, window) \in Nat
    <3> HIDE DEF window
    <3> QED BY <1>1, <2>3, SumsTyped DEF SumsNatural
  <2>5. /\ Spent(k, "monthly")' = Spent(k, "monthly")
        /\ SpentByUser' = SpentByUser
        /\ \A w : Spent(k, w)' = Spent(k, w)
    BY <1>2, <2>1 DEF Spent, SpentByUser, Event, EventOfUser, KeyOf
  <2>6. s.caps.limit # Unlimited => s.caps.limit.window = window
    BY <2>2
  <2>7. /\ Spent(KeyOf(q), "monthly")' <= seen'[q].spent
        /\ SpentByUser' <= seen'[q].userSpent
    BY <1>3, <2>2, <2>4, <2>5
  <2>8. seen'[q].caps.limit # Unlimited =>
           Spent(KeyOf(q), seen[q].caps.limit.window)' <= seen'[q].windowSpent
    <3> SUFFICES ASSUME seen'[q].caps.limit # Unlimited
                 PROVE  Spent(KeyOf(q), seen[q].caps.limit.window)'
                          <= seen'[q].windowSpent
      OBVIOUS
    <3>1. Spent(KeyOf(q), seen[q].caps.limit.window)' = Spent(k, window)
      BY <1>3, <2>5, <2>6
    <3> HIDE DEF window
    <3> QED BY <2>2, <2>4, <3>1
  <2>9. SettledStands(KeyOf(q), seen[q])'
    BY <2>7, <2>8 DEF SettledStands
  <2> QED BY <2>1, <2>9
<1>8. CASE ReadHeld(q)
  <2> DEFINE mine == EncumberingKey(k)
  <2>1. /\ pc[q] = "summed" /\ pc'[q] = "counted"
        /\ UNCHANGED <<events, rows, shape>>
    BY <1>8 DEF ReadHeld, Move, TypeOK
  <2>2. /\ seen'[q].settled = seen[q] /\ seen'[q].held = Held(mine)
        /\ seen'[q].userHeld = Held(Encumbering) /\ seen'[q].live = LiveCount
    BY <1>3, <1>8 DEF ReadHeld, TypeOK
  <2>3. /\ mine \in SUBSET Encumbering /\ Encumbering \in SUBSET Encumbering
    BY DEF EncumberingKey
  <2>4. Held(mine) \in Nat /\ Held(Encumbering) \in Nat /\ LiveCount \in Nat
    BY <2>3, SumsTyped DEF SumsNatural
  <2>5. /\ Held(EncumberingKey(KeyOf(q)))' = Held(mine)
        /\ Held(Encumbering)' = Held(Encumbering) /\ LiveCount' = LiveCount
    <3>1. UNCHANGED <<Encumbering, LiveCount>>
      BY <2>1 DEF Encumbering, Live, LiveCount
    <3>2. EncumberingKey(KeyOf(q))' = mine
      BY <1>3, <2>1, <3>1 DEF EncumberingKey
    <3> QED BY <2>1, <3>1, <3>2 DEF Held
  <2>6. HeldStands(KeyOf(q), seen[q])'
    BY <2>2, <2>4, <2>5 DEF HeldStands
  <2>7. seen[q] \in Settled /\ SettledStands(k, seen[q])
    BY <1>3, <2>1 DEF Stages, Stage, FiguresStand
  <2>8. SettledStands(KeyOf(q), seen[q].settled)'
    <3>1. \A x \in Settled : SettledStands(k, x) => SettledStands(k, x)'
      BY <1>5, EasedStands
    <3> QED BY <1>3, <2>2, <2>7, <3>1 DEF SettledStands
  <2> QED BY <2>1, <2>6, <2>8
<1> QED BY <1>4, <1>6, <1>7, <1>8

\* The invariant holds at the start and after every step.
LEMMA InitIInv == Init => IInv
<1> SUFFICES ASSUME Init PROVE IInv
  OBVIOUS
<1>1. TypeOK /\ Stages
  BY InitStages
<1>2. Locked /\ KeyAsSeen /\ FiguresStand
  BY DEF Init, Locked, KeyAsSeen, FiguresStand, InTransaction
<1> QED BY <1>1, <1>2 DEF IInv

LEMMA NextIInv == IInv /\ [Next]_vars => IInv'
<1> SUFFICES ASSUME IInv, [Next]_vars PROVE IInv'
  OBVIOUS
<1>1. TypeOK' /\ Stages'
  BY NextStages DEF IInv
<1>2. Locked' /\ KeyAsSeen'
  BY NextLocked, NextKeyAsSeen DEF IInv
<1>3. FiguresStand'
  BY <1>1, NextFiguresStand DEF IInv
<1> QED BY <1>1, <1>2, <1>3 DEF IInv

\* A request that is admitted with a reservation passed its gates on figures
\* that were no less than those of the moment.
LEMMA AdmitFits ==
    ASSUME IInv, NEW r \in Requests, Admit(r), ~shape[r].free
    PROVE  LET k == KeyOf(r)
               limit == keys[k].limit
               mine == rows'[r]
           IN
           /\ Spent(k, "monthly") + Held(EncumberingKey(k)) + mine.cost
                <= SpendCap[k]
           /\ SpentByUser + Held(Encumbering) + mine.cost
                <= seen[r].settled.caps.userSpendCap
           /\ limit # Unlimited =>
                Spent(k, limit.window) + Held(EncumberingKey(k)) + mine.cost
                  <= limit.amount
           /\ RequireCredits => balance - Held(Encumbering) >= mine.cost
<1> USE DEF IInv
<1> DEFINE k == KeyOf(r)
           s == seen[r].settled
           cost == ReservedCost(r)
           mine == Held(EncumberingKey(k))
           all == Held(Encumbering)
<1>1. pc[r] = "counted" /\ EveryGate(r)
  BY DEF Admit
<1>2. rows'[r].cost = cost /\ cost \in Nat
  <2>1. rows'[r] = Reservation(r)
    BY DEF Admit, TypeOK
  <2> QED BY <2>1, ReservationTyped
<1>3. k \in Keys /\ SpendCap[k] \in Nat
  BY ShapeTyped, CeilingsAssumption
<1>4. seen[r] \in Counted /\ s \in Settled /\ s.caps \in Ceilings
  BY <1>1 DEF Stages, Stage, Counted, Settled
<1>5. /\ seen[r].held \in Nat /\ seen[r].userHeld \in Nat
      /\ s.spent \in Nat /\ s.userSpent \in Nat /\ s.windowSpent \in Nat
      /\ s.caps.userSpendCap \in Nat
  BY <1>4 DEF Counted, Settled, Ceilings
<1>6. SettledStands(k, s) /\ HeldStands(k, seen[r])
  BY <1>1 DEF FiguresStand
<1>7. mine <= seen[r].held /\ all <= seen[r].userHeld
  BY <1>6 DEF HeldStands
<1>8. mine \in Nat /\ all \in Nat
  <2> DEFINE S == EncumberingKey(k)
  <2>1. S \in SUBSET Encumbering /\ Encumbering \in SUBSET Encumbering
    BY DEF EncumberingKey
  <2> HIDE DEF S
  <2>2. Held(S) \in Nat /\ Held(Encumbering) \in Nat
    BY <2>1, SumsTyped DEF SumsNatural
  <2> QED BY <2>2 DEF S
<1>9. Spent(k, "monthly") \in Nat /\ SpentByUser \in Nat
  <2> HIDE DEF k
  <2> QED BY <1>3, SumsTyped DEF SumsNatural
<1>10. Spent(k, "monthly") <= s.spent /\ SpentByUser <= s.userSpent
  BY <1>6 DEF SettledStands
<1>11. /\ s.spent + seen[r].held + cost <= SpendCap[k]
       /\ s.userSpent + seen[r].userHeld + cost <= s.caps.userSpendCap
  BY <1>1 DEF EveryGate, WithinSpendCaps, WithinCap
<1>12. keys[k].limit = s.caps.limit
  BY <1>1 DEF KeyAsSeen, LimitSeen, InTransaction
<1>13. ASSUME keys[k].limit # Unlimited
       PROVE  Spent(k, keys[k].limit.window) + mine + cost
                <= keys[k].limit.amount
  <2> DEFINE w == keys[k].limit.window
  <2>1. w \in {"daily", "monthly", "lifetime"} /\ keys[k].limit.amount \in Nat
    BY <1>4, <1>12, <1>13, CeilingsAssumption DEF Ceilings, Limit
  <2>2. Spent(k, w) <= s.windowSpent
    BY <1>6, <1>12, <1>13 DEF SettledStands
  <2>3. s.windowSpent + seen[r].held + cost <= keys[k].limit.amount
    BY <1>1, <1>12, <1>13 DEF EveryGate, WithinLimit, WithinCap
  <2>4. Spent(k, w) \in Nat
    <3> HIDE DEF k, w
    <3> QED BY <1>3, <2>1, SumsTyped DEF SumsNatural
  <2> HIDE DEF w, k, s, cost, mine
  <2>5. Spent(k, w) + mine + cost <= keys[k].limit.amount
    BY <1>2, <1>5, <1>7, <1>8, <2>1, <2>2, <2>3, <2>4
  <2> QED BY <2>5 DEF w
<1>14. RequireCredits => balance - all >= cost
  BY <1>1 DEF EveryGate, Funded
<1>15. /\ Spent(k, "monthly") + mine + cost <= SpendCap[k]
       /\ SpentByUser + all + cost <= s.caps.userSpendCap
  <2> HIDE DEF k, s, cost, mine, all
  <2> QED BY <1>2, <1>3, <1>5, <1>7, <1>8, <1>9, <1>10, <1>11
<1> QED BY <1>2, <1>13, <1>14, <1>15

\* A step that takes a request to its admission is that admission.
LEMMA AdmittedByAdmit ==
    ASSUME TypeOK, NEW r \in Requests, [Next]_vars,
           pc[r] = "counted", pc'[r] = "admitted"
    PROVE  Admit(r)
<1>1. ASSUME NEW q \in Requests, Progress(q), q # r PROVE pc'[r] = pc[r]
  BY <1>1 DEF TypeOK, Progress, ReadCoverage, BuildRoute, TakeUserLock,
       GiveUpWaiting, CheckKey, KeyRefused, CheckFreeze, FrozenOut,
       ReadSettled, ReadHeld, Admit, GatedOut, Answer, Settle, Observe, Die,
       Expire, Age, Refuse, Move
<1>2. ASSUME Progress(r) PROVE Admit(r)
  BY <1>2 DEF TypeOK, Progress, ReadCoverage, BuildRoute, TakeUserLock,
       GiveUpWaiting, CheckKey, KeyRefused, CheckFreeze, FrozenOut,
       ReadSettled, ReadHeld, GatedOut, Answer, Settle, Observe, Die,
       Expire, Age, Refuse, Move
<1> QED BY <1>1, <1>2 DEF Next, vars, Disable, EditLimit, Lapse, Freeze,
           ChangeCoverage

-----------------------------------------------------------------------------
(* The theorems.                                                           *)

\* The strengthened invariant holds in every reachable state.
THEOREM Invariant == Spec => []IInv
  BY InitIInv, NextIInv, PTL DEF Spec

\* Every variable keeps its type, the figures an admission has read included.
THEOREM TypeCorrect == Spec => []TypeOK
<1>1. IInv => TypeOK
  BY DEF IInv
<1> QED BY Invariant, <1>1, PTL

\* Nothing is admitted on a revoked key, nor above a ceiling in the figures of
\* the moment it commits: the row lock and the advisory lock keep out whatever
\* could come between two of the admission's statements.
THEOREM NothingSlipsBetween == Spec => AdmittedAsAllowed
<1>1. IInv /\ [Next]_vars => [AdmitsLiveKeys /\ AdmitsWithinCeilings]_vars
  <2> SUFFICES ASSUME IInv, [Next]_vars
               PROVE  AdmitsLiveKeys /\ AdmitsWithinCeilings
    OBVIOUS
  <2>1. AdmitsLiveKeys
    BY DEF AdmitsLiveKeys, IInv, KeyAsSeen, InTransaction
  <2>2. AdmitsWithinCeilings
    BY AdmittedByAdmit, AdmitFits DEF AdmitsWithinCeilings, IInv
  <2> QED BY <2>1, <2>2
<1> QED BY Invariant, <1>1, PTL DEF Spec, AdmittedAsAllowed

-----------------------------------------------------------------------------
(* The allowance.                                                          *)

\* Every event on the customer's own key was charged at most the fee on it.
FeesWithin ==
    \A q \in Requests :
        events[q] # Nothing /\ events[q].catalog > 0 =>
            events[q].cost <= Fee(events[q].catalog)

\* The fee on a price divides exactly.
LEMMA FeeExact ==
    ASSUME NEW price \in Price
    PROVE  price \in Nat /\ Fee(price) \in Nat /\ price = 20 * Fee(price)
<1>1. price \in Nat /\ price % 20 = 0
  BY DEF Price
<1>2. PICK n \in Nat : price = 20 * n
  <2>1. price = 20 * (price \div 20) + (price % 20) /\ price \div 20 \in Nat
    BY <1>1
  <2> QED BY <1>1, <2>1
<1>3. Fee(price) = n
  BY <1>2 DEF Fee, FeePercent
<1> QED BY <1>1, <1>2, <1>3

\* Prices add up to prices, and differ by prices.
LEMMA PricesAdd ==
    /\ 0 \in Price
    /\ \A a, b \in Price : a + b \in Price
    /\ \A a, b \in Price : a >= b => a - b \in Price
  BY DEF Price

\* What of an event went free of the fee, when the fee was not exceeded.
LEMMA FreeBounds ==
    ASSUME NEW event \in Events, event.cost <= Fee(event.catalog)
    PROVE  /\ FreeOfFee(event) = event.catalog - 20 * event.cost
           /\ FreeOfFee(event) \in Nat /\ FreeOfFee(event) <= event.catalog
<1>1. event.cost \in Nat /\ event.catalog \in Price
  BY DEF Events
<1>2. FreeOfFee(event) = event.catalog - 20 * event.cost
  BY <1>1, FeeExact DEF FreeOfFee, FeePercent
<1>3. /\ event.catalog \in Nat /\ Fee(event.catalog) \in Nat
      /\ event.catalog = 20 * Fee(event.catalog)
  BY <1>1, FeeExact
<1> QED BY <1>1, <1>2, <1>3

\* What of each event counts against the allowance.
Freed == [q \in Discounted |-> FreeOfFee(events[q])]

\* The terms are naturals, each within its catalog price.
LEMMA FreedTerms ==
    ASSUME TypeOK, FeesWithin
    PROVE  /\ DOMAIN Freed \subseteq Requests
           /\ \A q \in DOMAIN Freed :
                /\ Freed[q] \in Nat /\ Freed[q] <= events[q].catalog
                /\ Freed[q] = FreeOfFee(events[q])
                /\ events[q] # Nothing /\ events[q] \in Events
<1>1. DOMAIN Freed = Discounted
  BY DEF Freed
<1>2. Discounted \subseteq Requests
  BY DEF Discounted, EventOfUser
<1>3. ASSUME NEW q \in Discounted
      PROVE  /\ Freed[q] \in Nat /\ Freed[q] <= events[q].catalog
             /\ Freed[q] = FreeOfFee(events[q])
             /\ events[q] # Nothing /\ events[q] \in Events
  <2>1. events[q] # Nothing /\ events[q] \in Events /\ events[q].catalog > 0
    BY DEF Discounted, EventOfUser, TypeOK
  <2>2. events[q].cost <= Fee(events[q].catalog)
    BY <2>1 DEF FeesWithin, Discounted, EventOfUser
  <2>3. Freed[q] = FreeOfFee(events[q])
    BY DEF Freed
  <2> QED BY <2>1, <2>2, <2>3, FreeBounds
<1> QED BY <1>1, <1>2, <1>3

\* So is their sum, and after a step.
NaturallyFreed == SumFunction(Freed) \in Nat

LEMMA FreedNatural == TypeOK /\ FeesWithin => NaturallyFreed
  BY FreedTerms, RequestsAssumption, SumWholeType DEF NaturallyFreed

LEMMA FreedNaturalNext == TypeOK' /\ FeesWithin' => NaturallyFreed'
  BY FreedNatural, PTL

\* What went free is at most what was used.
LEMMA FreedWithinUsed ==
    ASSUME TypeOK, FeesWithin, NEW r \in Requests
    PROVE  /\ SumFunction(Freed) \in Nat
           /\ SumFunction(Freed) <= Consumed(r)
           /\ Consumed(r) \in Price
<1> DEFINE M == EventOfUser("monthly")
           h == [q \in M |-> events[q].catalog]
<1>1. IsFiniteSet(Requests) /\ M \subseteq Requests
  BY RequestsAssumption DEF EventOfUser
<1>2. \A q \in M : h[q] \in Price
  BY DEF EventOfUser, TypeOK, Events
<1>3. \A q \in M : h[q] \in Nat
  BY <1>2 DEF Price
<1>4. /\ DOMAIN Freed \subseteq Requests
      /\ \A q \in DOMAIN Freed : Freed[q] \in Nat
      /\ \A q \in DOMAIN Freed : Freed[q] <= events[q].catalog
  BY FreedTerms
<1>5. \A q \in DOMAIN Freed : q \in M /\ h[q] = events[q].catalog
  BY DEF Freed, Discounted
<1>6. DOMAIN h = M
  OBVIOUS
<1>7. Consumed(r) = SumFunction(h)
  BY DEF Consumed
<1> HIDE DEF M, h
<1>8. SumFunction(Freed) <= SumFunction(h)
  BY <1>1, <1>3, <1>4, <1>5, <1>6, SumDominated
<1>9. SumFunction(Freed) \in Nat
  BY <1>1, <1>4, SumWholeType
<1>10. SumFunction(h) \in Price
  <2>1. IsFiniteSet(M)
    BY <1>1, FS_Subset
  <2>2. SumFunctionOnSet(h, M) \in Price
    BY <1>2, <2>1, PricesAdd, SumClosed
  <2> QED BY <1>6, <2>2 DEF SumFunction
<1> QED BY <1>7, <1>8, <1>9, <1>10

\* A step that writes no charged event frees nothing.
LEMMA EasedFreed ==
    ASSUME TypeOK, TypeOK', FeesWithin, \A q \in Requests : EventEased(q)
    PROVE  FeesWithin' /\ SumFunction(Freed)' <= SumFunction(Freed)
<1>1. ASSUME NEW q \in Requests, events'[q] # Nothing, events'[q].catalog > 0
      PROVE  /\ events[q] # Nothing /\ events[q].cost = events'[q].cost
             /\ events[q].catalog = events'[q].catalog
             /\ events'[q].age \in Within("monthly") =>
                  events[q].age \in Within("monthly")
  BY <1>1 DEF EventEased
<1>2. FeesWithin'
  BY <1>1 DEF FeesWithin
<1>3. ASSUME NEW q \in Discounted'
      PROVE  /\ q \in Discounted
             /\ FreeOfFee(events'[q]) = FreeOfFee(events[q])
  BY <1>1 DEF Discounted, EventOfUser, FreeOfFee
<1> DEFINE D == Discounted'
           g == [q \in D |-> FreeOfFee(events'[q])]
<1>4. DOMAIN g \subseteq Requests /\ DOMAIN g = D
  BY DEF Discounted, EventOfUser
<1>5. /\ DOMAIN Freed = Discounted
      /\ \A q \in Discounted : Freed[q] = FreeOfFee(events[q])
  BY DEF Freed
<1>6. /\ DOMAIN Freed \subseteq Requests
      /\ \A q \in DOMAIN Freed : Freed[q] \in Nat
  BY FreedTerms
<1>7. \A q \in DOMAIN g : q \in DOMAIN Freed /\ g[q] = Freed[q] /\ g[q] \in Nat
  BY <1>3, <1>4, <1>5, <1>6
<1>8. SumFunction(Freed)' = SumFunction(g)
  BY DEF Freed
<1>9. \A q \in DOMAIN g : g[q] <= Freed[q]
  <2> HIDE DEF g
  <2> QED BY <1>7
<1> HIDE DEF g, D
<1>10. SumFunction(g) <= SumFunction(Freed)
  BY <1>4, <1>6, <1>7, <1>9, RequestsAssumption, SumDominated
<1> QED BY <1>2, <1>8, <1>10

\* A settle frees at most what is left of the allowance.
LEMMA SettleFrees ==
    ASSUME TypeOK, TypeOK', Stages, FeesWithin, AllowanceOnce,
           NEW r \in Requests, Settle(r)
    PROVE  FeesWithin' /\ AllowanceOnce'
<1> DEFINE e == [cost |-> Charge(r), tokens |-> owed[r].usage.tokens,
                 catalog |-> IF owed[r].by = "byok"
                               THEN owed[r].usage.price ELSE 0,
                 held |-> rows[r].cost, age |-> "minute",
                 late |-> rows[r].expired]
           p == owed[r].usage.price
           C == Consumed(r)
           F == SumFunction(Freed)
<1>1. pc[r] = "owed" /\ events' = [events EXCEPT ![r] = e]
  BY DEF Settle, Move
<1>2. events[r] = Nothing
  BY <1>1 DEF Stages, Stage
<1>3. p \in Price /\ Charge(r) \in Nat /\ owed[r].by \in {"house", "byok"}
  BY <1>1, ChargeTyped DEF Size
<1>4. e.cost = Charge(r) /\ e.catalog = (IF owed[r].by = "byok" THEN p ELSE 0)
      /\ e.age = "minute"
  OBVIOUS
<1> HIDE DEF e, p
<1>5. events'[r] = e /\ e \in Events /\ e # Nothing
  <2>1. rows[r] \in Reservations /\ owed[r].usage \in Size
    BY <1>1, ChargeTyped DEF Settle, TypeOK, Stages, Stage
  <2>2. /\ rows[r].cost \in Nat /\ rows[r].expired \in BOOLEAN
        /\ owed[r].usage.tokens \in Nat
    BY <2>1 DEF Reservations, Size
  <2>3. (IF owed[r].by = "byok" THEN owed[r].usage.price ELSE 0) \in Price
    BY <2>1, PricesAdd DEF Size
  <2>4. e \in Events
    BY <1>3, <2>2, <2>3, EventTyped DEF e
  <2> QED BY <1>1, <2>4, NothingAssumption DEF TypeOK
<1>6. \A q \in Requests : q # r => events'[q] = events[q]
  BY <1>1 DEF TypeOK
<1>7. p \in Nat /\ e.catalog \in Price
  BY <1>3, <1>4, FeeExact, PricesAdd
<1>8. e.catalog > 0 => owed[r].by = "byok" /\ e.catalog = p
  BY <1>3, <1>4
<1>9. e.catalog > 0 => e.cost <= Fee(e.catalog)
  <2>1. owed[r].by = "byok" => Charge(r) <= Fee(owed[r].usage.price)
    BY <1>1, ChargeTyped
  <2> QED BY <1>4, <1>8, <2>1 DEF p
<1>10. FeesWithin'
  BY <1>5, <1>6, <1>9 DEF FeesWithin
<1>11. F \in Nat /\ F <= C /\ C \in Price /\ F <= Allowance
  BY FreedWithinUsed DEF AllowanceOnce, Freed
\* The one new term.
<1>12. e.catalog > 0 => FreeOfFee(e) <= Remaining(C)
  <2> SUFFICES ASSUME e.catalog > 0 PROVE FreeOfFee(e) <= Remaining(C)
    OBVIOUS
  <2> DEFINE b == Billable(p, C)
  <2>1. Remaining(C) \in Price /\ C \in Nat
    <3>1. C \in Nat /\ Allowance \in Nat /\ Allowance \in Price
      BY <1>11, FeeExact, CeilingsAssumption
    <3> HIDE DEF C
    <3>2. C < Allowance => Allowance - C \in Price
      BY <1>11, <3>1, PricesAdd
    <3> QED BY <3>1, <3>2, PricesAdd DEF Remaining
  <2>2. b \in Price /\ b <= p /\ p - b <= Remaining(C)
    <3> DEFINE R == Remaining(C)
    <3>1. R \in Nat /\ R \in Price
      BY <2>1, FeeExact
    <3>2. b = IF p > R THEN p - R ELSE 0
      BY DEF Billable
    <3> HIDE DEF R, b
    <3>3. b \in Price
      BY <1>3, <1>7, <3>1, <3>2, PricesAdd
    <3>4. b <= p /\ p - b <= R
      BY <1>7, <3>1, <3>2
    <3> QED BY <3>3, <3>4 DEF R
  <2> DEFINE x == Fee(b)
             y == Fee(p)
  <2>3. Charge(r) = Min({x, y})
    BY <1>8 DEF Charge, p
  <2> HIDE DEF b
  <2>4. /\ b \in Nat /\ x \in Nat /\ b = 20 * x
        /\ y \in Nat /\ p = 20 * y
    BY <1>3, <2>2, FeeExact
  <2>5. x <= y
    BY <2>2, <2>4
  <2> HIDE DEF x, y
  <2>6. Min({x, y}) = x
    <3>1. x \in Int /\ y \in Int
      BY <2>4
    <3>2. Min({x, y}) \in {x, y} /\ Min({x, y}) <= x
      BY <3>1, MinPair
    <3> QED BY <2>4, <2>5, <3>2
  <2>7. FreeOfFee(e) = p - 20 * x
    BY <1>4, <1>5, <1>8, <1>9, <2>3, <2>6, FreeBounds
  <2>8. FreeOfFee(e) = p - b
    BY <2>4, <2>7
  <2> QED BY <2>2, <2>8
<1>13. SumFunction(Freed)' <= F + Remaining(C)
  <2> DEFINE D == Discounted'
             g == [q \in D |-> FreeOfFee(events'[q])]
             G == Padded(Freed, DOMAIN Freed, Requests)
             H == Padded(g, DOMAIN g, Requests)
  <2>1. /\ DOMAIN Freed = Discounted /\ Discounted \subseteq Requests
        /\ \A q \in Discounted : Freed[q] = FreeOfFee(events[q])
        /\ \A q \in Discounted : Freed[q] \in Nat
    BY FreedTerms DEF Freed
  <2>2. D \subseteq Requests /\ \A q \in Requests : q # r =>
           (q \in D <=> q \in Discounted)
    BY <1>6 DEF Discounted, EventOfUser
  <2>3. r \notin Discounted /\ (r \in D => e.catalog > 0)
    BY <1>2, <1>5 DEF Discounted, EventOfUser
  <2>4. r \in D => g[r] = FreeOfFee(e) /\ FreeOfFee(e) \in Nat
    BY <1>5, <1>9, <2>3, FreeBounds
  <2>5. \A q \in D : g[q] \in Nat
    <3> SUFFICES ASSUME NEW q \in D PROVE g[q] \in Nat
      OBVIOUS
    <3>1. CASE q = r
      BY <2>4, <3>1
    <3>2. CASE q # r
      BY <1>6, <2>1, <2>2, <3>2
    <3> QED BY <3>1, <3>2
  <2>6. \A q \in D : q # r => g[q] = Freed[q]
    BY <1>6, <2>1, <2>2
  <2>7. DOMAIN g = D /\ SumFunction(Freed)' = SumFunction(g)
    BY DEF Freed
  <2> HIDE DEF g, D
  <2>8. Remaining(C) \in Nat
    <3> HIDE DEF C
    <3> QED BY <1>11, FeeExact, AllowanceBounds
  <2>9. /\ G \in [Requests -> Int] /\ H \in [Requests -> Int]
        /\ \A q \in Requests : q # r => H[q] = G[q]
        /\ G[r] = 0 /\ H[r] <= Remaining(C)
    BY <1>12, <2>1, <2>2, <2>3, <2>4, <2>5, <2>6, <2>7, <2>8 DEF Padded
  <2>10. SumFunction(Freed) = SumFunctionOnSet(G, Requests)
    <3> HIDE DEF G
    <3> QED BY <2>1, RequestsAssumption, SumWhole DEF G
  <2>11. SumFunction(g) = SumFunctionOnSet(H, Requests)
    <3> HIDE DEF H
    <3> QED BY <2>2, <2>5, <2>7, RequestsAssumption, SumWhole DEF H
  <2> HIDE DEF G, H
  <2>12. SumFunctionOnSet(H, Requests)
           = SumFunctionOnSet(G, Requests) + (H[r] - G[r])
    BY <2>9, RequestsAssumption, SumChange
  <2>13. H[r] \in Int
    BY <2>9
  <2> HIDE DEF C
  <2> QED BY <1>11, <2>7, <2>8, <2>9, <2>10, <2>11, <2>12, <2>13
<1>14. F + Remaining(C) <= Allowance
  <2>1. C \in Nat /\ Allowance \in Nat
    BY <1>11, FeeExact, CeilingsAssumption
  <2> HIDE DEF C, F
  <2> QED BY <1>11, <2>1 DEF Remaining
<1>15. SumFunction(Freed)' <= Allowance
  <2>1. Remaining(C) \in Nat /\ Allowance \in Nat
    <3> HIDE DEF C
    <3> QED BY <1>11, FeeExact, AllowanceBounds, CeilingsAssumption
  <2>2. SumFunction(Freed)' \in Nat
    BY <1>10, FreedNaturalNext DEF NaturallyFreed
  <2> HIDE DEF C, F
  <2> QED BY <1>11, <1>13, <1>14, <2>1, <2>2
<1> QED BY <1>10, <1>15 DEF AllowanceOnce, Freed

\* The allowance is used once: no step frees more than is left of it.
LEMMA NextAllowance ==
    IInv /\ FeesWithin /\ AllowanceOnce /\ [Next]_vars
        => FeesWithin' /\ AllowanceOnce'
<1> SUFFICES ASSUME IInv, FeesWithin, AllowanceOnce, [Next]_vars
             PROVE  FeesWithin' /\ AllowanceOnce'
  OBVIOUS
<1>1. TypeOK /\ Stages /\ TypeOK'
  BY NextIInv DEF IInv
<1>2. ASSUME NEW r \in Requests, Settle(r) PROVE FeesWithin' /\ AllowanceOnce'
  BY <1>1, <1>2, SettleFrees
<1>3. ASSUME \A q \in Requests : EventEased(q)
      PROVE  FeesWithin' /\ AllowanceOnce'
  <2>1. FeesWithin' /\ SumFunction(Freed)' <= SumFunction(Freed)
    BY <1>1, <1>3, EasedFreed
  <2>2. SumFunction(Freed) \in Nat /\ SumFunction(Freed)' \in Nat
    BY <1>1, <2>1, FreedNatural, FreedNaturalNext DEF NaturallyFreed
  <2>3. SumFunction(Freed) <= Allowance /\ Allowance \in Nat
    BY FeeExact, CeilingsAssumption DEF AllowanceOnce, Freed
  <2>4. SumFunction(Freed)' <= Allowance
    BY <2>1, <2>2, <2>3
  <2> QED BY <2>1, <2>4 DEF AllowanceOnce, Freed
<1>4. ASSUME NEW r \in Requests, Admit(r)
      PROVE  \A q \in Requests : EventEased(q)
  BY <1>4 DEF Admit, EventEased
<1> QED BY <1>1, <1>2, <1>3, <1>4, StepsEase DEF Eased

\* Every event on the customer's own key was charged at most its fee, and what
\* the month's events ran free of it is within the allowance.
THEOREM AllowanceUsedOnce == Spec => []AllowanceOnce
<1>1. Init => FeesWithin /\ AllowanceOnce
  <2> SUFFICES ASSUME Init PROVE FeesWithin /\ AllowanceOnce
    OBVIOUS
  <2>1. FeesWithin
    BY DEF Init, FeesWithin
  <2>2. DOMAIN Freed = {}
    BY DEF Init, Freed, Discounted, EventOfUser
  <2>3. SumFunction(Freed) = 0
    BY <2>2, SumEmpty DEF SumFunction
  <2>4. Allowance \in Nat
    BY FeeExact, CeilingsAssumption
  <2> QED BY <2>1, <2>3, <2>4 DEF AllowanceOnce, Freed
<1> QED BY Invariant, <1>1, NextAllowance, PTL DEF Spec

-----------------------------------------------------------------------------
(* The spend cap.                                                          *)

\* A row is at its full size, at its learned one, or waived.
RowSized(q) ==
    rows[q] # Nothing =>
        \/ rows[q].cost = Sized(shape[q].full, sizedAs[q])
        \/ /\ shape[q].learned # Unsized
           /\ rows[q].cost = Sized(shape[q].learned, sizedAs[q])
        \/ WhollyByok(sizedAs[q]) /\ rows[q].cost = 0

\* A row reserves less than its full size, and not for want of any fee.
Short(q) ==
    /\ rows[q] # Nothing
    /\ ~(WhollyByok(sizedAs[q]) /\ rows[q].cost = 0)
    /\ rows[q].cost < Sized(shape[q].full, sizedAs[q])

ShortLive == [q \in Requests |-> IF Live(q) /\ Short(q) THEN 1 ELSE 0]

\* What a request has been charged on a key within the month, and what its row
\* encumbers the key with.
Due(k) == [q \in Requests |-> IF q \in Event(k, "monthly") THEN events[q].cost
                              ELSE 0]
Encumbered(k) == [q \in Requests |-> IF q \in EncumberingKey(k) THEN rows[q].cost
                                   ELSE 0]

\* What the row may fall short by.
Unreserved(k) == [q \in Requests |-> IF q \in EncumberingKey(k) /\ Short(q)
                                 THEN Shortfall ELSE 0]

\* Debts that outlived their TTL, settled or not.
LateDue == {q \in Requests : \/ events[q] # Nothing /\ events[q].late
                             \/ /\ rows[q] # Nothing
                                /\ rows[q].expired /\ rows[q].intent}

\* What the bound allows a request beyond its reservation.
ForMismatch == [q \in Requests |-> IF q \in Mismatched THEN shape[q].full.price
                                   ELSE 0]
ForOvertaken == [q \in Requests |-> IF q \in Overtaken
                                    THEN Fee(shape[q].full.price) ELSE 0]
ForLate == [q \in Requests |-> IF q \in LateDue THEN Shortfall ELSE 0]

\* What a request weighs on a key, net of what the bound allows it.
Load(k) == [q \in Requests |-> Due(k)[q] + Encumbered(k)[q] + Unreserved(k)[q]
                               - ForMismatch[q] - ForOvertaken[q] - ForLate[q]]

RowsSized == \A q \in Requests : RowSized(q)
FewShort == SumFunctionOnSet(ShortLive, Requests) <= LearnedLimit
CapHolds ==
    \A k \in Keys : SumFunctionOnSet(Load(k), Requests)
                      <= SpendCap[k] + LearnedLimit * Shortfall

\* The shortfall bounds what any request's learned size leaves out.
LEMMA ShortfallBounds ==
    /\ Shortfall \in Nat
    /\ \A s \in Shapes : s.learned # Unsized =>
         s.full.price - s.learned.price <= Shortfall
<1> DEFINE T == {t \in Shapes : t.learned # Unsized}
           f == [s \in T |-> s.full.price - s.learned.price]
           I == {f[s] : s \in T}
           S == {0} \cup I
<1>1. IsFiniteSet(T)
  BY RequestsAssumption, FS_Subset
<1>2. \A s \in T : f[s] \in Nat
  <2> SUFFICES ASSUME NEW s \in T PROVE s.full.price - s.learned.price \in Nat
    OBVIOUS
  <2>1. /\ s.full \in Size /\ s.learned \in Size
        /\ s.learned.price <= s.full.price
    BY RequestsAssumption DEF Shape
  <2>2. s.full.price \in Nat /\ s.learned.price \in Nat
    BY <2>1, SizedTyped
  <2> QED BY <2>1, <2>2
<1>3. IsFiniteSet(I)
  <2> HIDE DEF T, f
  <2> QED BY <1>1, FiniteImage
<1>4. IsFiniteSet(S) /\ S \subseteq Nat /\ S # {}
  <2>1. I \subseteq Nat
    <3> HIDE DEF T, f
    <3> QED BY <1>2
  <2> HIDE DEF I
  <2>2. S = I \cup {0}
    OBVIOUS
  <2> QED BY <1>3, <2>1, <2>2, FS_AddElement
<1>5. Shortfall = Max(S)
  <2>1. I = {s.full.price - s.learned.price : s \in T}
    OBVIOUS
  <2> QED BY <2>1 DEF Shortfall
<1>6. \A s \in T : f[s] \in S
  OBVIOUS
<1>7. \A s \in T : f[s] = s.full.price - s.learned.price
  OBVIOUS
<1>8. Max(S) \in Nat /\ \A y \in S : y <= Max(S)
  <2> HIDE DEF S
  <2> QED BY <1>4, MaxNatural
<1> HIDE DEF S, f
<1> QED BY <1>5, <1>6, <1>7, <1>8

\* A larger price is reserved for with no less, and by no more than the
\* difference.
LEMMA SizedGrows ==
    ASSUME NEW a \in Size, NEW b \in Size, a.price <= b.price, NEW posture
    PROVE  /\ Sized(a, posture) <= Sized(b, posture)
           /\ Sized(b, posture) - Sized(a, posture) <= b.price - a.price
           /\ Fee(a.price) <= Fee(b.price)
<1>1. a.price \in Price /\ b.price \in Price
  BY DEF Size
<1> DEFINE x == Fee(a.price)
           y == Fee(b.price)
<1>2. /\ x \in Nat /\ y \in Nat /\ a.price \in Nat /\ b.price \in Nat
      /\ a.price = 20 * x /\ b.price = 20 * y
  BY <1>1, FeeExact
<1>3. /\ Sized(a, posture) = (IF WhollyByok(posture) THEN x ELSE a.price)
      /\ Sized(b, posture) = (IF WhollyByok(posture) THEN y ELSE b.price)
  BY DEF Sized
<1> HIDE DEF x, y
<1>4. x <= y /\ y - x <= b.price - a.price
  BY <1>2
<1>5. Fee(a.price) <= Fee(b.price)
  BY <1>4 DEF x, y
<1> QED BY <1>2, <1>3, <1>4, <1>5

\* What each term is, and of what kind.
LEMMA LoadTerms ==
    ASSUME TypeOK, NEW k \in Keys
    PROVE  /\ Due(k) \in [Requests -> Nat] /\ Encumbered(k) \in [Requests -> Nat]
           /\ Unreserved(k) \in [Requests -> Nat]
           /\ ForMismatch \in [Requests -> Nat]
           /\ ForOvertaken \in [Requests -> Nat]
           /\ ForLate \in [Requests -> Nat]
           /\ Load(k) \in [Requests -> Int]
           /\ ShortLive \in [Requests -> {0, 1}]
<1>1. Due(k) \in [Requests -> Nat]
  BY DEF Due, Event, EventOfUser, TypeOK, Events
<1>2. Encumbered(k) \in [Requests -> Nat]
  BY DEF Encumbered, EncumberingKey, Encumbering, Live, TypeOK, Reservations
<1>3. Unreserved(k) \in [Requests -> Nat] /\ ForLate \in [Requests -> Nat]
  BY ShortfallBounds DEF Unreserved, ForLate
<1>4. \A q \in Requests : shape[q].full.price \in Nat
                           /\ Fee(shape[q].full.price) \in Nat
  BY ShapeTyped, SizedTyped, FeeBounds
<1>5. ForMismatch \in [Requests -> Nat] /\ ForOvertaken \in [Requests -> Nat]
  BY <1>4 DEF ForMismatch, ForOvertaken
<1>6. ShortLive \in [Requests -> {0, 1}]
  BY DEF ShortLive
<1>7. Load(k) \in [Requests -> Int]
  <2> SUFFICES ASSUME NEW q \in Requests
               PROVE  Due(k)[q] + Encumbered(k)[q] + Unreserved(k)[q] - ForMismatch[q]
                        - ForOvertaken[q] - ForLate[q] \in Int
    BY DEF Load
  <2>1. /\ Due(k)[q] \in Nat /\ Encumbered(k)[q] \in Nat /\ Unreserved(k)[q] \in Nat
        /\ ForMismatch[q] \in Nat /\ ForOvertaken[q] \in Nat
        /\ ForLate[q] \in Nat
    BY <1>1, <1>2, <1>3, <1>5
  <2> QED BY <2>1
<1> QED BY <1>1, <1>2, <1>3, <1>5, <1>6, <1>7

\* The terms after a step.
TermsTyped ==
    \A k \in Keys : /\ Due(k) \in [Requests -> Nat]
                    /\ Encumbered(k) \in [Requests -> Nat]
                    /\ Load(k) \in [Requests -> Int]

LEMMA TermsTypedNow == TypeOK => TermsTyped
  BY LoadTerms DEF TermsTyped

LEMMA TermsTypedNext == TypeOK' => TermsTyped'
  BY TermsTypedNow, PTL

LEMMA LoadTyped ==
    ASSUME TypeOK', NEW k \in Keys
    PROVE  /\ Due(k)' \in [Requests -> Nat] /\ Encumbered(k)' \in [Requests -> Nat]
           /\ Load(k)' \in [Requests -> Int]
  BY TermsTypedNext DEF TermsTyped

\* One request's share of a load.
LEMMA LoadAt ==
    ASSUME TypeOK, NEW k \in Keys, NEW q \in Requests
    PROVE  Load(k)[q]
             = (IF q \in Event(k, "monthly") THEN events[q].cost ELSE 0)
               + (IF q \in EncumberingKey(k) THEN rows[q].cost ELSE 0)
               + (IF q \in EncumberingKey(k) /\ Short(q) THEN Shortfall ELSE 0)
               - (IF q \in Mismatched THEN shape[q].full.price ELSE 0)
               - (IF q \in Overtaken THEN Fee(shape[q].full.price) ELSE 0)
               - (IF q \in LateDue THEN Shortfall ELSE 0)
  BY DEF Load, Due, Encumbered, Unreserved, ForMismatch, ForOvertaken, ForLate

\* A request's credentials are read before it has a row or an event.
LEMMA PosturesKept ==
    ASSUME TypeOK, Stages, [Next]_vars, NEW q \in Requests,
           rows[q] # Nothing \/ events[q] # Nothing
    PROVE  sizedAs'[q] = sizedAs[q] /\ routedAs'[q] = routedAs[q]
<1>1. pc[q] \notin {"new", "sized"}
  BY DEF Stages, Stage
<1>2. ASSUME NEW r \in Requests, ReadCoverage(r) \/ BuildRoute(r)
      PROVE  sizedAs'[q] = sizedAs[q] /\ routedAs'[q] = routedAs[q]
  BY <1>1, <1>2 DEF ReadCoverage, BuildRoute, Move, TypeOK
<1>3. ASSUME UNCHANGED <<sizedAs, routedAs>>
      PROVE  sizedAs'[q] = sizedAs[q] /\ routedAs'[q] = routedAs[q]
  BY <1>3
<1>4. ASSUME NEW r \in Requests, Progress(r),
             ~(ReadCoverage(r) \/ BuildRoute(r))
      PROVE  UNCHANGED <<sizedAs, routedAs>>
  BY <1>4 DEF Progress, TakeUserLock, GiveUpWaiting, CheckKey, KeyRefused,
       CheckFreeze, FrozenOut, ReadSettled, ReadHeld, Admit, GatedOut, Answer,
       Settle, Observe, Die, Expire, Age, Refuse
<1>5. ASSUME \/ \E k \in Keys : Disable(k) \/ EditLimit(k) \/ Lapse(k)
             \/ Freeze \/ ChangeCoverage
      PROVE  UNCHANGED <<sizedAs, routedAs>>
  BY <1>5 DEF Disable, EditLimit, Lapse, Freeze, ChangeCoverage
<1> QED BY <1>2, <1>3, <1>4, <1>5 DEF Next, vars

\* The sizes of the rows, and what a step of another request leaves of one.
LEMMA RowSizedKept ==
    ASSUME NEW q \in Requests, RowSized(q), RowEased(q), UNCHANGED shape,
           rows[q] # Nothing => sizedAs'[q] = sizedAs[q]
    PROVE  /\ RowSized(q)'
           /\ Live(q)' => Live(q)
           /\ rows'[q] # Nothing => (Short(q)' <=> Short(q))
  BY DEF RowSized, RowEased, Live, Short

\* A step that eases what a request weighs does not add to it.
LEMMA EasedLoad ==
    ASSUME TypeOK, TypeOK', NEW k \in Keys, NEW q \in Requests,
           UNCHANGED shape, EventEased(q), RowEased(q),
           rows[q] # Nothing \/ events[q] # Nothing =>
              sizedAs'[q] = sizedAs[q] /\ routedAs'[q] = routedAs[q]
    PROVE  Load(k)'[q] <= Load(k)[q]
<1> DEFINE due == IF q \in Event(k, "monthly") THEN events[q].cost ELSE 0
           held == IF q \in EncumberingKey(k) THEN rows[q].cost ELSE 0
           short == IF q \in EncumberingKey(k) /\ Short(q) THEN Shortfall ELSE 0
           mis == IF q \in Mismatched THEN shape[q].full.price ELSE 0
           over == IF q \in Overtaken THEN Fee(shape[q].full.price) ELSE 0
           late == IF q \in LateDue THEN Shortfall ELSE 0
<1>1. Load(k)[q] = due + held + short - mis - over - late
  BY LoadAt
<1>2. Load(k)'[q] = due' + held' + short' - mis' - over' - late'
  BY DEF Load, Due, Encumbered, Unreserved, ForMismatch, ForOvertaken, ForLate
<1>3. /\ shape[q].full.price \in Nat /\ Fee(shape[q].full.price) \in Nat
      /\ Shortfall \in Nat
  BY ShapeTyped, SizedTyped, FeeBounds, ShortfallBounds
<1>4. /\ events[q] # Nothing => events[q].cost \in Nat
      /\ events'[q] # Nothing => events'[q].cost \in Nat
      /\ rows[q] # Nothing => rows[q].cost \in Nat
      /\ rows'[q] # Nothing => rows'[q].cost \in Nat
  BY DEF TypeOK, Events, Reservations
<1>5. due \in Nat /\ due' \in Nat /\ due' <= due
  BY <1>4 DEF EventEased, Event, EventOfUser
<1>6. q \in EncumberingKey(k)' =>
        /\ q \in EncumberingKey(k) /\ rows'[q].cost = rows[q].cost
        /\ Short(q)' => Short(q)
  BY DEF RowEased, EncumberingKey, Encumbering, Live, Short
<1>7. /\ held \in Nat /\ held' \in Nat /\ held' <= held
      /\ short \in Nat /\ short' \in Nat /\ short' <= short
  BY <1>3, <1>4, <1>6 DEF EncumberingKey, Encumbering, Live
<1>8. /\ q \in Mismatched => q \in Mismatched'
      /\ q \in Overtaken => q \in Overtaken'
      /\ q \in LateDue => q \in LateDue'
  BY DEF EventEased, RowEased, Mismatched, Overtaken, LateDue
<1>9. /\ mis \in Nat /\ mis' \in Nat /\ mis <= mis'
      /\ over \in Nat /\ over' \in Nat /\ over <= over'
      /\ late \in Nat /\ late' \in Nat /\ late <= late'
  BY <1>3, <1>8
<1> HIDE DEF due, held, short, mis, over, late
<1> QED BY <1>1, <1>2, <1>5, <1>7, <1>9

\* The charge of a settle is covered by its row and what the bound allows it.
LEMMA ChargeCovered ==
    ASSUME TypeOK, Stages, NEW r \in Requests, RowSized(r),
           pc[r] = "owed", ~shape[r].free
    PROVE  Charge(r) <= rows[r].cost
             + (IF Short(r) THEN Shortfall ELSE 0)
             + (IF sizedAs[r] # routedAs[r] THEN shape[r].full.price ELSE 0)
             + (IF WhollyByok(sizedAs[r]) /\ rows[r].cost = 0
                  THEN Fee(shape[r].full.price) ELSE 0)
<1> DEFINE full == shape[r].full
           B == Sized(full, sizedAs[r])
<1>1. rows[r] # Nothing /\ rows[r].cost \in Nat
  BY DEF Stages, Stage, TypeOK, Reservations
<1>2. /\ Charge(r) \in Nat /\ Charge(r) <= owed[r].usage.price
      /\ owed[r].usage \in Size /\ owed[r].usage.price <= full.price
      /\ owed[r].by = "byok" => Charge(r) <= Fee(owed[r].usage.price)
  BY ChargeTyped
<1>3. /\ full \in Size /\ full.price \in Nat /\ Fee(full.price) \in Nat
      /\ owed[r].usage.price \in Nat /\ Shortfall \in Nat /\ B \in Nat
      /\ Fee(owed[r].usage.price) \in Nat
  BY <1>2, ShapeTyped, SizedTyped, FeeBounds, ShortfallBounds
<1>4. Charge(r) <= full.price
  BY <1>2, <1>3
<1>5. ASSUME sizedAs[r] = routedAs[r] PROVE Charge(r) <= B
  <2>1. CASE WhollyByok(sizedAs[r])
    <3>1. owed[r].by = "byok"
      BY <1>5, <2>1 DEF Stages, Stage, WhollyByok, ServedBy
    <3>2. Fee(owed[r].usage.price) <= Fee(full.price)
      BY <1>2, <1>3, SizedGrows
    <3>3. B = Fee(full.price)
      BY <2>1 DEF Sized
    <3> QED BY <1>2, <1>3, <3>1, <3>2, <3>3
  <2>2. CASE ~WhollyByok(sizedAs[r])
    BY <1>4, <2>2 DEF Sized
  <2> QED BY <2>1, <2>2
<1>6. CASE sizedAs[r] # routedAs[r]
  BY <1>1, <1>2, <1>3, <1>4, <1>6
<1>7. CASE sizedAs[r] = routedAs[r]
  <2>1. Charge(r) <= B
    BY <1>5, <1>7
  <2>2. CASE WhollyByok(sizedAs[r]) /\ rows[r].cost = 0
    <3>1. B = Fee(full.price)
      BY <2>2 DEF Sized
    <3>2. Charge(r) <= Fee(full.price)
      BY <2>1, <3>1
    <3>3. (IF WhollyByok(sizedAs[r]) /\ rows[r].cost = 0
             THEN Fee(shape[r].full.price) ELSE 0) = Fee(full.price)
      BY <2>2
    <3>4. (IF Short(r) THEN Shortfall ELSE 0) \in Nat
      BY <1>3
    <3>5. (IF sizedAs[r] # routedAs[r] THEN shape[r].full.price ELSE 0) = 0
      BY <1>7
    <3> QED BY <1>1, <1>2, <1>3, <3>2, <3>3, <3>4, <3>5
  <2>3. CASE rows[r].cost >= B
    <3> HIDE DEF B
    <3> QED BY <1>1, <1>2, <1>3, <2>1, <2>3
  <2>4. CASE /\ ~(WhollyByok(sizedAs[r]) /\ rows[r].cost = 0)
             /\ rows[r].cost < B
    <3>1. Short(r)
      BY <1>1, <2>4 DEF Short
    <3> DEFINE L == Sized(shape[r].learned, sizedAs[r])
    <3>2. shape[r].learned # Unsized /\ rows[r].cost = L
      <4>1. rows[r].cost # B
        <5> HIDE DEF B
        <5> QED BY <1>1, <1>3, <2>4
      <4> QED BY <1>1, <2>4, <4>1 DEF RowSized
    <3>3. /\ shape[r].learned \in Size
          /\ shape[r].learned.price <= full.price
      BY <3>2, ShapeTyped
    <3>4. B - L <= full.price - shape[r].learned.price
      BY <1>3, <3>3, SizedGrows
    <3>5. full.price - shape[r].learned.price <= Shortfall
      BY <3>2, ShortfallBounds DEF TypeOK
    <3>6. L \in Nat /\ shape[r].learned.price \in Nat
      BY <3>3, SizedTyped
    <3> HIDE DEF B, L, full
    <3>7. B <= L + Shortfall
      BY <1>3, <3>4, <3>5, <3>6
    <3>8. Charge(r) <= rows[r].cost + Shortfall
      BY <1>2, <1>3, <2>1, <3>2, <3>6, <3>7
    <3> USE DEF full
    <3>9. /\ (IF sizedAs[r] # routedAs[r] THEN shape[r].full.price ELSE 0) \in Nat
          /\ (IF WhollyByok(sizedAs[r]) /\ rows[r].cost = 0
                THEN Fee(shape[r].full.price) ELSE 0) \in Nat
      BY <1>3
    <3>10. (IF Short(r) THEN Shortfall ELSE 0) = Shortfall
      BY <3>1
    <3> QED BY <1>1, <1>2, <1>3, <3>8, <3>9, <3>10
  <2>5. rows[r].cost >= B \/ rows[r].cost < B
    <3> HIDE DEF B
    <3> QED BY <1>1, <1>3
  <2> QED BY <2>2, <2>3, <2>4, <2>5
<1> QED BY <1>6, <1>7

\* So a settle does not add to what its request weighs.
LEMMA SettleLoad ==
    ASSUME TypeOK, TypeOK', Stages, NEW r \in Requests, Settle(r), RowSized(r),
           NEW k \in Keys
    PROVE  Load(k)'[r] <= Load(k)[r]
<1> DEFINE e == [cost |-> Charge(r), tokens |-> owed[r].usage.tokens,
                 catalog |-> IF owed[r].by = "byok"
                               THEN owed[r].usage.price ELSE 0,
                 held |-> rows[r].cost, age |-> "minute",
                 late |-> rows[r].expired]
           full == shape[r].full.price
<1>1. /\ pc[r] = "owed" /\ ~shape[r].free
      /\ UNCHANGED <<shape, sizedAs, routedAs>>
  BY DEF Settle, Move
<1>2. events[r] = Nothing /\ rows[r] # Nothing /\ rows[r].intent
  BY <1>1 DEF Stages, Stage
<1>3. rows'[r] = Nothing /\ events'[r] = e
  BY DEF Settle, TypeOK
<1>4. /\ e.cost = Charge(r) /\ e.held = rows[r].cost /\ e.age = "minute"
      /\ e.late = rows[r].expired
  OBVIOUS
<1>5. events'[r] # Nothing
  <2>1. pc'[r] = "settled"
    BY DEF Settle, Move, TypeOK
  <2>2. rows[r].cost \in Nat /\ rows[r].expired \in BOOLEAN
    BY <1>2 DEF TypeOK, Reservations
  <2>3. /\ Charge(r) \in Nat /\ owed[r].usage \in Size
    BY <1>1, ChargeTyped
  <2>4. /\ owed[r].usage.tokens \in Nat
        /\ (IF owed[r].by = "byok" THEN owed[r].usage.price ELSE 0) \in Price
    BY <2>3, PricesAdd DEF Size
  <2>5. e \in Events
    BY <2>2, <2>3, <2>4, EventTyped
  <2> HIDE DEF e
  <2> QED BY <1>3, <2>5, NothingAssumption
<1> HIDE DEF e
<1> DEFINE c == Charge(r)
           h == rows[r].cost
           short == IF Short(r) THEN Shortfall ELSE 0
           mis == IF sizedAs[r] # routedAs[r] THEN full ELSE 0
           over == IF WhollyByok(sizedAs[r]) /\ rows[r].cost = 0
                     THEN Fee(full) ELSE 0
           late == IF rows[r].expired THEN Shortfall ELSE 0
<1>6. c <= h + short + mis + over
  BY <1>1, ChargeCovered
<1>7. /\ full \in Nat /\ Fee(full) \in Nat /\ Shortfall \in Nat
      /\ c \in Nat /\ h \in Nat
  BY <1>1, <1>2, ShapeTyped, SizedTyped, FeeBounds, ShortfallBounds, ChargeTyped
     DEF TypeOK, Reservations
<1>8. short \in Nat /\ mis \in Nat /\ over \in Nat /\ late \in Nat
  BY <1>7
<1>9. Load(k)[r] = IF shape[r].key = k THEN h + short - late ELSE 0 - late
  <2>1. r \notin Event(k, "monthly") /\ r \notin Mismatched /\ r \notin Overtaken
    BY <1>2 DEF Event, EventOfUser, Mismatched, Overtaken
  <2>2. r \in EncumberingKey(k) <=> shape[r].key = k
    BY <1>2 DEF EncumberingKey, Encumbering
  <2>3. r \in LateDue <=> rows[r].expired
    BY <1>2 DEF LateDue
  <2>4. Load(k)[r] = (IF shape[r].key = k THEN h ELSE 0)
                     + (IF shape[r].key = k /\ Short(r) THEN Shortfall ELSE 0)
                     - late
    <3>1. Load(k)[r]
             = 0 + (IF shape[r].key = k THEN h ELSE 0)
               + (IF shape[r].key = k /\ Short(r) THEN Shortfall ELSE 0)
               - 0 - 0 - late
      BY <2>1, <2>2, <2>3, LoadAt
    <3> HIDE DEF h, late
    <3> QED BY <1>7, <1>8, <3>1
  <2> HIDE DEF h, late
  <2> QED BY <1>7, <1>8, <2>4
<1>10. Load(k)'[r] = (IF shape[r].key = k THEN c ELSE 0) - mis - over - late
  <2>1. r \in Event(k, "monthly")' <=> shape[r].key = k
    BY <1>1, <1>3, <1>4, <1>5 DEF Event, EventOfUser, Within
  <2>2. r \notin EncumberingKey(k)'
    BY <1>3 DEF EncumberingKey, Encumbering, Live
  <2>3. /\ r \in Mismatched' <=> sizedAs[r] # routedAs[r]
        /\ r \in Overtaken' <=> WhollyByok(sizedAs[r]) /\ rows[r].cost = 0
        /\ r \in LateDue' <=> rows[r].expired
    BY <1>1, <1>3, <1>4, <1>5 DEF Mismatched, Overtaken, LateDue
  <2>4. Load(k)'[r]
          = (IF r \in Event(k, "monthly")' THEN events'[r].cost ELSE 0)
            + (IF r \in EncumberingKey(k)' THEN rows'[r].cost ELSE 0)
            + (IF r \in EncumberingKey(k)' /\ Short(r)' THEN Shortfall ELSE 0)
            - (IF r \in Mismatched' THEN shape'[r].full.price ELSE 0)
            - (IF r \in Overtaken' THEN Fee(shape'[r].full.price) ELSE 0)
            - (IF r \in LateDue' THEN Shortfall ELSE 0)
    BY DEF Load, Due, Encumbered, Unreserved, ForMismatch, ForOvertaken, ForLate
  <2>5. Load(k)'[r] = (IF shape[r].key = k THEN c ELSE 0) + 0 + 0
                        - mis - over - late
    BY <1>1, <1>3, <1>4, <2>1, <2>2, <2>3, <2>4
  <2> HIDE DEF c, mis, over, late
  <2> QED BY <1>7, <1>8, <2>5
<1> HIDE DEF c, h, short, mis, over, late
<1> QED BY <1>6, <1>7, <1>8, <1>9, <1>10

\* The cap's own invariant: the rows' sizes, the few that are short, and the
\* load of every key.
CapInv == RowsSized /\ FewShort /\ CapHolds

\* The sums of it that a step of no term adds to.
LEMMA FewerShort ==
    ASSUME FewShort, \A q \in Requests : ShortLive'[q] <= ShortLive[q]
    PROVE  FewShort'
<1> DEFINE f == ShortLive'
<1>1. f \in [Requests -> {0, 1}] /\ ShortLive \in [Requests -> {0, 1}]
  BY DEF ShortLive
<1>2. \A q \in Requests : f[q] <= ShortLive[q]
  OBVIOUS
<1> HIDE DEF f
<1>3. SumFunctionOnSet(f, Requests) <= SumFunctionOnSet(ShortLive, Requests)
  BY <1>1, <1>2, RequestsAssumption, SumGrows
<1>4. /\ SumFunctionOnSet(f, Requests) \in Nat
      /\ SumFunctionOnSet(ShortLive, Requests) \in Nat
  BY <1>1, RequestsAssumption, SumType
<1>5. SumFunctionOnSet(f, Requests) <= LearnedLimit
  BY <1>3, <1>4, CeilingsAssumption DEF FewShort
<1> QED BY <1>5 DEF FewShort, f

LEMMA NoHeavier ==
    ASSUME TypeOK, TypeOK', CapHolds, NEW k \in Keys,
           \A q \in Requests : Load(k)'[q] <= Load(k)[q]
    PROVE  SumFunctionOnSet(Load(k)', Requests)
             <= SpendCap[k] + LearnedLimit * Shortfall
<1> DEFINE f == Load(k)'
           g == Load(k)
<1>1. f \in [Requests -> Int] /\ g \in [Requests -> Int]
  <2>1. g \in [Requests -> Int]
    BY LoadTerms
  <2>2. f \in [Requests -> Int]
    BY LoadTyped
  <2> QED BY <2>1, <2>2
<1>2. \A q \in Requests : f[q] <= g[q]
  OBVIOUS
<1>3. SumFunctionOnSet(g, Requests) <= SpendCap[k] + LearnedLimit * Shortfall
  BY DEF CapHolds
<1> HIDE DEF f, g
<1>4. SumFunctionOnSet(f, Requests) <= SumFunctionOnSet(g, Requests)
  BY <1>1, <1>2, RequestsAssumption, SumGrows
<1>5. /\ SumFunctionOnSet(f, Requests) \in Int
      /\ SumFunctionOnSet(g, Requests) \in Int
  BY <1>1, RequestsAssumption, SumType
<1>6. SpendCap[k] + LearnedLimit * Shortfall \in Int
  BY CeilingsAssumption, ShortfallBounds
<1>7. SumFunctionOnSet(f, Requests) <= SpendCap[k] + LearnedLimit * Shortfall
  BY <1>3, <1>4, <1>5, <1>6
<1> QED BY <1>7 DEF f

\* No step that eases the sums disturbs it.
LEMMA EasedCap ==
    ASSUME TypeOK, TypeOK', Stages, CapInv, [Next]_vars, Eased
    PROVE  CapInv'
<1>1. UNCHANGED shape /\ \A q \in Requests : EventEased(q) /\ RowEased(q)
  BY DEF Eased
<1>2. \A q \in Requests : rows[q] # Nothing \/ events[q] # Nothing =>
         sizedAs'[q] = sizedAs[q] /\ routedAs'[q] = routedAs[q]
  BY PosturesKept
<1>3. \A q \in Requests : /\ RowSized(q)'
                          /\ Live(q)' => Live(q)
                          /\ rows'[q] # Nothing => (Short(q)' <=> Short(q))
  BY <1>1, <1>2, RowSizedKept DEF CapInv, RowsSized
<1>4. FewShort'
  <2>1. \A q \in Requests : ShortLive'[q] <= ShortLive[q]
    BY <1>3 DEF ShortLive, Live
  <2> QED BY <2>1, FewerShort DEF CapInv
<1>5. CapHolds'
  <2> SUFFICES ASSUME NEW k \in Keys
               PROVE  SumFunctionOnSet(Load(k)', Requests)
                        <= SpendCap[k] + LearnedLimit * Shortfall
    BY DEF CapHolds
  <2>1. \A q \in Requests : Load(k)'[q] <= Load(k)[q]
    BY <1>1, <1>2, EasedLoad
  <2> QED BY <2>1, NoHeavier DEF CapInv
<1> QED BY <1>3, <1>4, <1>5 DEF CapInv, RowsSized

\* A settle moves a reservation into the month, and what is beyond it into
\* what the bound allows.
LEMMA SettleCap ==
    ASSUME TypeOK, TypeOK', Stages, CapInv, NEW r \in Requests, Settle(r)
    PROVE  CapInv'
<1>1. /\ UNCHANGED <<shape, sizedAs, routedAs>>
      /\ \A q \in Requests : q # r => events'[q] = events[q] /\ rows'[q] = rows[q]
      /\ rows'[r] = Nothing
  BY DEF Settle, TypeOK
<1>2. RowsSized'
  BY <1>1 DEF CapInv, RowsSized, RowSized
<1>3. FewShort'
  <2>1. \A q \in Requests : ShortLive'[q] <= ShortLive[q]
    BY <1>1 DEF ShortLive, Live, Short
  <2> QED BY <2>1, FewerShort DEF CapInv
<1>4. CapHolds'
  <2> SUFFICES ASSUME NEW k \in Keys
               PROVE  SumFunctionOnSet(Load(k)', Requests)
                        <= SpendCap[k] + LearnedLimit * Shortfall
    BY DEF CapHolds
  <2>1. \A q \in Requests : Load(k)'[q] <= Load(k)[q]
    <3> SUFFICES ASSUME NEW q \in Requests PROVE Load(k)'[q] <= Load(k)[q]
      OBVIOUS
    <3>1. CASE q = r
      BY <3>1, SettleLoad DEF CapInv, RowsSized
    <3>2. CASE q # r
      <4>1. EventEased(q) /\ RowEased(q)
        BY <1>1, <3>2 DEF EventEased, RowEased
      <4> QED BY <1>1, <4>1, EasedLoad
    <3> QED BY <3>1, <3>2
  <2> QED BY <2>1, NoHeavier DEF CapInv
<1> QED BY <1>2, <1>3, <1>4 DEF CapInv

\* The figures of an admission as sums over all requests.
LEMMA DueSum ==
    ASSUME TypeOK, NEW k \in Keys
    PROVE  /\ Spent(k, "monthly") = SumFunctionOnSet(Due(k), Requests)
           /\ Held(EncumberingKey(k)) = SumFunctionOnSet(Encumbered(k), Requests)
<1> DEFINE S == Event(k, "monthly")
           g == [q \in S |-> events[q].cost]
           T == EncumberingKey(k)
           h == [q \in T |-> rows[q].cost]
<1>1. S \subseteq Requests /\ \A q \in S : g[q] \in Int
  BY DEF Event, EventOfUser, TypeOK, Events
<1>2. T \subseteq Requests /\ \A q \in T : h[q] \in Int
  BY DEF EncumberingKey, Encumbering, Live, TypeOK, Reservations
<1>3. /\ DOMAIN g = S /\ Due(k) = Padded(g, S, Requests)
      /\ Spent(k, "monthly") = SumFunction(g)
  BY DEF Due, Padded, Spent
<1>4. /\ DOMAIN h = T /\ Encumbered(k) = Padded(h, T, Requests)
      /\ Held(EncumberingKey(k)) = SumFunction(h)
  BY DEF Encumbered, Padded, Held
<1> HIDE DEF S, T, g, h
<1>5. SumFunction(g) = SumFunctionOnSet(Due(k), Requests)
  BY <1>1, <1>3, RequestsAssumption, SumWhole
<1>6. SumFunction(h) = SumFunctionOnSet(Encumbered(k), Requests)
  BY <1>2, <1>4, RequestsAssumption, SumWhole
<1> QED BY <1>3, <1>4, <1>5, <1>6

\* The live rows that are short are among the live ones.
LEMMA ShortAmongLive ==
    ASSUME TypeOK
    PROVE  /\ SumFunctionOnSet(ShortLive, Requests) \in Nat
           /\ SumFunctionOnSet(ShortLive, Requests) <= LiveCount
<1> DEFINE f == [q \in Requests |-> IF Live(q) THEN 1 ELSE 0]
           g == ShortLive
<1>1. f \in [Requests -> {0, 1}] /\ g \in [Requests -> {0, 1}]
  BY DEF ShortLive
<1>2. \A q \in Requests : f[q] \in Int /\ g[q] \in Int /\ g[q] <= f[q]
  BY DEF ShortLive
<1>3. {q \in Requests : f[q] = 1} = {q \in Requests : Live(q)}
  OBVIOUS
<1> HIDE DEF f, g
<1>4. Cardinality({q \in Requests : f[q] = 1}) = SumFunctionOnSet(f, Requests)
  BY <1>1, RequestsAssumption, SumOnes
<1>5. SumFunctionOnSet(g, Requests) <= SumFunctionOnSet(f, Requests)
  BY <1>2, RequestsAssumption, SumGrows
<1>6. SumFunctionOnSet(g, Requests) \in Nat
  BY <1>1, RequestsAssumption, SumType
<1> QED BY <1>3, <1>4, <1>5, <1>6 DEF LiveCount, g

\* An admission adds a short row only while few are live.
LEMMA AdmitShort ==
    ASSUME IInv, CapInv, NEW r \in Requests, Admit(r), ~shape[r].free
    PROVE  FewShort'
<1> USE DEF IInv
<1>1. /\ UNCHANGED <<shape, sizedAs>> /\ pc[r] = "counted"
      /\ rows'[r] = Reservation(r)
      /\ \A q \in Requests : q # r => rows'[q] = rows[q]
  BY DEF Admit, TypeOK
<1>2. /\ Reservation(r).cost = ReservedCost(r) /\ ReservedCost(r) \in Nat
      /\ ~Reservation(r).expired /\ ~Reservation(r).intent
  BY ReservationTyped
<1>3. rows[r] = Nothing
  BY <1>1 DEF Stages, Stage
<1> DEFINE f == ShortLive'
<1>4. f \in [Requests -> {0, 1}] /\ ShortLive \in [Requests -> {0, 1}]
  BY DEF ShortLive
<1>5. (\A q \in Requests : q # r => f[q] = ShortLive[q]) /\ ShortLive[r] = 0
  BY <1>1, <1>3 DEF ShortLive, Live, Short
<1>6. CASE ~Short(r)'
  <2>1. f[r] = 0
    BY <1>6 DEF ShortLive
  <2>2. \A q \in Requests : f[q] <= ShortLive[q]
    BY <1>4, <1>5, <2>1
  <2> QED BY <2>2, FewerShort DEF CapInv
<1>7. CASE Short(r)'
  <2>1. LearnedAllowed(r)
    <3>1. /\ ~(WhollyByok(sizedAs[r]) /\ ReservedCost(r) = 0)
          /\ ReservedCost(r) < Sized(shape[r].full, sizedAs[r])
      BY <1>1, <1>2, <1>7 DEF Short
    <3>2. ~Waived(r)
      BY <3>1 DEF ReservedCost, Waived
    <3>3. Sized(shape[r].full, sizedAs[r]) \in Nat
      BY ShapeTyped, SizedTyped
    <3>4. ~(ReservedCost(r) = Sized(shape[r].full, sizedAs[r]))
      BY <1>2, <3>1, <3>3
    <3> QED BY <3>2, <3>4 DEF ReservedCost, ChosenSize
  <2>2. seen[r].live < LearnedLimit /\ LiveCount <= seen[r].live
        /\ seen[r].live \in Nat /\ LiveCount \in Nat
    BY <1>1, <2>1, SumsTyped DEF LearnedAllowed, FiguresStand, HeldStands,
       Stages, Stage, Counted, SumsNatural
  <2>3. /\ SumFunctionOnSet(ShortLive, Requests) \in Nat
        /\ SumFunctionOnSet(ShortLive, Requests) <= LiveCount
    BY ShortAmongLive
  <2> HIDE DEF f
  <2>4. f \in [Requests -> Int] /\ ShortLive \in [Requests -> Int]
    BY <1>4
  <2>5. SumFunctionOnSet(f, Requests)
          = SumFunctionOnSet(ShortLive, Requests) + (f[r] - ShortLive[r])
    BY <1>5, <2>4, RequestsAssumption, SumChange
  <2>6. f[r] \in {0, 1}
    BY <1>4
  <2>7. SumFunctionOnSet(f, Requests) <= LearnedLimit
    BY <1>5, <2>2, <2>3, <2>5, <2>6, CeilingsAssumption
  <2> QED BY <2>7 DEF FewShort, f
<1> QED BY <1>6, <1>7

\* A load is within what is spent, what is reserved, and a shortfall for each
\* live row that is short: a short row that is not live is a late debt.
LoadWithin ==
    \A k \in Keys :
        SumFunctionOnSet(Load(k), Requests)
          <= Spent(k, "monthly") + Held(EncumberingKey(k))
             + Shortfall * SumFunctionOnSet(ShortLive, Requests)

LEMMA LoadIsWithin == TypeOK => LoadWithin
<1> SUFFICES ASSUME TypeOK, NEW k \in Keys
             PROVE  SumFunctionOnSet(Load(k), Requests)
                      <= Spent(k, "monthly") + Held(EncumberingKey(k))
                         + Shortfall * SumFunctionOnSet(ShortLive, Requests)
  BY DEF LoadWithin
<1> DEFINE load == Load(k)
           due == Due(k)
           held == Encumbered(k)
           short == ShortLive
           c == Shortfall
           g == [q \in Requests |-> due[q] + held[q]]
           s == [q \in Requests |-> c * short[q]]
           h == [q \in Requests |-> g[q] + s[q]]
<1>1. /\ load \in [Requests -> Int] /\ due \in [Requests -> Nat]
      /\ held \in [Requests -> Nat] /\ short \in [Requests -> {0, 1}]
  BY LoadTerms
<1>2. c \in Nat
  BY ShortfallBounds
<1>3. \A q \in Requests : load[q] <= due[q] + held[q] + c * short[q]
  <2> SUFFICES ASSUME NEW q \in Requests
               PROVE  load[q] <= due[q] + held[q] + c * short[q]
    OBVIOUS
  <2> DEFINE u == Unreserved(k)
             m == ForMismatch
             o == ForOvertaken
             l == ForLate
  <2>1. load[q] = due[q] + held[q] + u[q] - m[q] - o[q] - l[q]
    BY DEF Load
  <2>2. u[q] \in Nat /\ m[q] \in Nat /\ o[q] \in Nat /\ l[q] \in Nat
    BY LoadTerms
  <2>3. u[q] <= c * short[q] + l[q]
    <3>1. CASE ~(q \in EncumberingKey(k) /\ Short(q))
      <4>1. u[q] = 0 /\ short[q] \in {0, 1}
        BY <1>1, <3>1 DEF Unreserved
      <4> HIDE DEF u, short, c, l
      <4> QED BY <1>2, <2>2, <4>1
    <3>2. CASE q \in EncumberingKey(k) /\ Short(q)
      <4>1. u[q] = c
        BY <3>2 DEF Unreserved
      <4>2. CASE Live(q)
        <5>1. short[q] = 1
          BY <3>2, <4>2 DEF ShortLive
        <5> HIDE DEF u, short, c, l
        <5> QED BY <1>2, <2>2, <4>1, <5>1
      <4>3. CASE ~Live(q)
        <5>1. q \in LateDue
          BY <3>2, <4>3 DEF EncumberingKey, Encumbering, Live, LateDue, TypeOK,
             Reservations
        <5>2. l[q] = c /\ short[q] = 0
          BY <4>3, <5>1 DEF ForLate, ShortLive
        <5> HIDE DEF u, short, c, l
        <5> QED BY <1>2, <4>1, <5>2
      <4> QED BY <4>2, <4>3
    <3> QED BY <3>1, <3>2
  <2>4. due[q] \in Nat /\ held[q] \in Nat /\ short[q] \in {0, 1}
    BY <1>1
  <2> HIDE DEF load, due, held, short, c, u, m, o, l
  <2> QED BY <1>2, <2>1, <2>2, <2>3, <2>4
<1>4. /\ SumFunctionOnSet(due, Requests) = Spent(k, "monthly")
      /\ SumFunctionOnSet(held, Requests) = Held(EncumberingKey(k))
  BY DueSum
<1> HIDE DEF load, due, held, short, c
<1>5. /\ g \in [Requests -> Int] /\ s \in [Requests -> Int]
      /\ h \in [Requests -> Int]
  <2>1. \A q \in Requests : due[q] \in Nat /\ held[q] \in Nat /\ short[q] \in {0, 1}
    BY <1>1
  <2>2. \A q \in Requests : c * short[q] \in Int
    BY <1>2, <2>1
  <2>3. \A q \in Requests : due[q] + held[q] \in Int
    BY <2>1
  <2> QED BY <2>2, <2>3
<1>6. /\ \A q \in Requests : g[q] = due[q] + held[q]
      /\ \A q \in Requests : s[q] = c * short[q]
      /\ \A q \in Requests : h[q] = g[q] + s[q]
  OBVIOUS
<1>7. \A q \in Requests : load[q] \in Int /\ h[q] \in Int /\ load[q] <= h[q]
  <2>1. \A q \in Requests : h[q] = due[q] + held[q] + c * short[q]
    OBVIOUS
  <2> HIDE DEF g, s, h
  <2> QED BY <1>1, <1>3, <1>5, <2>1
<1> HIDE DEF g, s, h
<1>8. SumFunctionOnSet(load, Requests) <= SumFunctionOnSet(h, Requests)
  BY <1>7, RequestsAssumption, SumGrows
<1>9. SumFunctionOnSet(h, Requests)
        = SumFunctionOnSet(g, Requests) + SumFunctionOnSet(s, Requests)
  BY <1>5, <1>6, RequestsAssumption, SumPlus
<1>10. SumFunctionOnSet(g, Requests)
         = SumFunctionOnSet(due, Requests) + SumFunctionOnSet(held, Requests)
  <2>1. due \in [Requests -> Int] /\ held \in [Requests -> Int]
    BY <1>1
  <2> QED BY <1>6, <2>1, RequestsAssumption, SumPlus
<1>11. SumFunctionOnSet(s, Requests) = c * SumFunctionOnSet(short, Requests)
  <2>1. short \in [Requests -> Int]
    BY <1>1
  <2>2. c \in Int
    BY <1>2
  <2> QED BY <1>6, <2>1, <2>2, RequestsAssumption, SumTimes
<1>12. SumFunctionOnSet(load, Requests)
         <= Spent(k, "monthly") + Held(EncumberingKey(k))
            + c * SumFunctionOnSet(short, Requests)
  BY <1>4, <1>8, <1>9, <1>10, <1>11
<1> QED BY <1>12 DEF load, c, short

LEMMA LoadIsWithinNext == TypeOK' => LoadWithin'
  BY LoadIsWithin, PTL

\* The figures as sums over all requests, after a step.
FiguresSum ==
    \A k \in Keys :
        /\ Spent(k, "monthly") = SumFunctionOnSet(Due(k), Requests)
        /\ Held(EncumberingKey(k)) = SumFunctionOnSet(Encumbered(k), Requests)

LEMMA FiguresSumNow == TypeOK => FiguresSum
  BY DueSum DEF FiguresSum

LEMMA FiguresSumNext == TypeOK' => FiguresSum'
  BY FiguresSumNow, PTL

\* What an admission adds to its key is its reservation.
LEMMA AdmitHolds ==
    ASSUME IInv, TypeOK', NEW r \in Requests, Admit(r), ~shape[r].free,
           NEW k \in Keys, k = KeyOf(r)
    PROVE  /\ Spent(k, "monthly")' = Spent(k, "monthly")
           /\ Held(EncumberingKey(k))'
                = Held(EncumberingKey(k)) + ReservedCost(r)
<1> USE DEF IInv
<1> DEFINE g == Encumbered(k)'
           f == Encumbered(k)
<1>1. /\ UNCHANGED <<shape, events>> /\ pc[r] = "counted"
      /\ rows'[r] = Reservation(r)
      /\ \A q \in Requests : q # r => rows'[q] = rows[q]
  BY DEF Admit, TypeOK
<1>2. /\ Reservation(r).cost = ReservedCost(r) /\ ReservedCost(r) \in Nat
      /\ ~Reservation(r).expired /\ Reservation(r) # Nothing
  BY ReservationTyped
<1>3. rows[r] = Nothing
  BY <1>1 DEF Stages, Stage
<1>4. Spent(k, "monthly")' = Spent(k, "monthly")
  BY <1>1 DEF Spent, Event, EventOfUser
<1>5. f \in [Requests -> Int] /\ g \in [Requests -> Int]
  <2>1. f \in [Requests -> Nat]
    BY LoadTerms
  <2>2. g \in [Requests -> Nat]
    BY LoadTyped
  <2> QED BY <2>1, <2>2
<1>6. \A q \in Requests : q # r => g[q] = f[q]
  BY <1>1 DEF Encumbered, EncumberingKey, Encumbering, Live
<1>7. f[r] = 0
  BY <1>3 DEF Encumbered, EncumberingKey, Encumbering, Live
<1>8. g[r] = ReservedCost(r)
  BY <1>1, <1>2 DEF Encumbered, EncumberingKey, Encumbering, Live, KeyOf
<1>9. /\ Held(EncumberingKey(k)) = SumFunctionOnSet(f, Requests)
      /\ Held(EncumberingKey(k))' = SumFunctionOnSet(g, Requests)
  BY FiguresSumNow, FiguresSumNext DEF FiguresSum
<1> HIDE DEF f, g
<1>10. SumFunctionOnSet(g, Requests)
         = SumFunctionOnSet(f, Requests) + (g[r] - f[r])
  BY <1>5, <1>6, RequestsAssumption, SumChange
<1>11. SumFunctionOnSet(f, Requests) \in Int
  BY <1>5, RequestsAssumption, SumType
<1>12. Held(EncumberingKey(k))' = Held(EncumberingKey(k)) + ReservedCost(r)
  BY <1>2, <1>7, <1>8, <1>9, <1>10, <1>11
<1> QED BY <1>4, <1>12

\* An admission leaves every key within its cap: its own by the gate it passed,
\* the others untouched.
LEMMA AdmitCap ==
    ASSUME IInv, TypeOK', CapInv, NEW r \in Requests, Admit(r), ~shape[r].free
    PROVE  CapInv'
<1> USE DEF IInv
<1>1. /\ UNCHANGED <<shape, sizedAs, routedAs, events>> /\ pc[r] = "counted"
      /\ rows'[r] = Reservation(r)
      /\ \A q \in Requests : q # r => rows'[q] = rows[q]
  BY DEF Admit, TypeOK
<1>2. /\ Reservation(r).cost = ReservedCost(r) /\ ReservedCost(r) \in Nat
      /\ ~Reservation(r).expired /\ Reservation(r) # Nothing
  BY ReservationTyped
<1>3. rows[r] = Nothing /\ events[r] = Nothing
  BY <1>1 DEF Stages, Stage
<1>4. RowsSized'
  <2> SUFFICES ASSUME NEW q \in Requests PROVE RowSized(q)'
    BY DEF RowsSized
  <2>1. CASE q # r
    BY <1>1, <2>1 DEF CapInv, RowsSized, RowSized
  <2>2. CASE q = r
    <3>1. \/ WhollyByok(sizedAs[r]) /\ ReservedCost(r) = 0
          \/ ReservedCost(r) = Sized(shape[r].full, sizedAs[r])
          \/ /\ shape[r].learned # Unsized
             /\ ReservedCost(r) = Sized(shape[r].learned, sizedAs[r])
      BY DEF ReservedCost, Waived, ChosenSize, LearnedAllowed
    <3>2. rows'[r].cost = ReservedCost(r)
      BY <1>1, <1>2
    <3> QED BY <1>1, <2>2, <3>1, <3>2 DEF RowSized
  <2> QED BY <2>1, <2>2
<1>5. FewShort'
  BY AdmitShort
<1>6. CapHolds'
  <2> SUFFICES ASSUME NEW k \in Keys
               PROVE  SumFunctionOnSet(Load(k)', Requests)
                        <= SpendCap[k] + LearnedLimit * Shortfall
    BY DEF CapHolds
  <2>1. CASE k # KeyOf(r)
    <3>1. \A q \in Requests : Load(k)'[q] <= Load(k)[q]
      <4> SUFFICES ASSUME NEW q \in Requests PROVE Load(k)'[q] <= Load(k)[q]
        OBVIOUS
      <4>1. CASE q # r
        <5>1. EventEased(q) /\ RowEased(q)
          BY <1>1, <4>1 DEF EventEased, RowEased
        <5> QED BY <1>1, <5>1, EasedLoad
      <4>2. CASE q = r
        <5>1. Load(k)[r] = 0 + 0 + 0 - 0 - 0 - 0
          BY <1>3, LoadAt DEF Event, EventOfUser, EncumberingKey, Encumbering,
             Live, Mismatched, Overtaken, LateDue
        <5>2. /\ r \notin Event(k, "monthly")' /\ r \notin EncumberingKey(k)'
              /\ r \notin Mismatched' /\ r \notin Overtaken'
              /\ r \notin LateDue'
          BY <1>1, <1>2, <1>3, <2>1 DEF Event, EventOfUser, EncumberingKey,
             Mismatched, Overtaken, LateDue, KeyOf
        <5>3. Load(k)'[r] = 0 + 0 + 0 - 0 - 0 - 0
          BY <5>2 DEF Load, Due, Encumbered, Unreserved, ForMismatch, ForOvertaken,
             ForLate
        <5> QED BY <4>2, <5>1, <5>3
      <4> QED BY <4>1, <4>2
    <3> QED BY <3>1, NoHeavier DEF CapInv
  <2>2. CASE k = KeyOf(r)
    <3> DEFINE spent == Spent(k, "monthly")
               held == Held(EncumberingKey(k))
               n == SumFunctionOnSet(ShortLive', Requests)
    <3>1. SumFunctionOnSet(Load(k)', Requests) <= spent' + held' + Shortfall * n
      <4>1. LoadWithin'
        BY LoadIsWithinNext
      <4> QED BY <4>1 DEF LoadWithin
    <3>2. spent' = spent /\ held' = held + ReservedCost(r)
      BY <2>2, AdmitHolds
    <3>3. spent + held + ReservedCost(r) <= SpendCap[k]
      <4>1. rows'[r].cost = ReservedCost(r)
        BY <1>1, <1>2
      <4> QED BY <2>2, <4>1, AdmitFits
    <3>4. spent \in Nat /\ held \in Nat
      <4>1. EncumberingKey(k) \in SUBSET Encumbering
        BY DEF EncumberingKey
      <4> QED BY <4>1, SumsTyped DEF SumsNatural
    <3>5. n \in Nat /\ n <= LearnedLimit
      <4>1. \A q \in Requests : ShortLive'[q] \in {0, 1}
        BY DEF ShortLive
      <4> DEFINE f == ShortLive'
      <4>2. \A q \in Requests : f[q] \in Nat
        BY <4>1
      <4> HIDE DEF f
      <4>3. SumFunctionOnSet(f, Requests) \in Nat
        BY <4>2, RequestsAssumption, SumType
      <4>4. SumFunctionOnSet(ShortLive', Requests) <= LearnedLimit
        BY <1>5 DEF FewShort
      <4> QED BY <4>3, <4>4 DEF f
    <3>6. Shortfall \in Nat /\ LearnedLimit \in Nat /\ SpendCap[k] \in Nat
      BY ShortfallBounds, CeilingsAssumption
    <3>7. SumFunctionOnSet(Load(k)', Requests) \in Int
      <4> DEFINE f == Load(k)'
      <4>1. f \in [Requests -> Int]
        BY LoadTyped
      <4> HIDE DEF f
      <4>2. SumFunctionOnSet(f, Requests) \in Int
        BY <4>1, RequestsAssumption, SumType
      <4> QED BY <4>2 DEF f
    <3> DEFINE w == SumFunctionOnSet(Load(k)', Requests)
    <3> HIDE DEF spent, held, n, w
    <3>8. Shortfall * n <= LearnedLimit * Shortfall
      BY <3>5, <3>6
    <3>9. /\ Shortfall * n \in Nat /\ LearnedLimit * Shortfall \in Nat
          /\ spent + held + ReservedCost(r) \in Nat
      BY <1>2, <3>4, <3>5, <3>6
    <3>10. w <= spent + held + ReservedCost(r) + Shortfall * n
      <4>1. w <= spent + (held + ReservedCost(r)) + Shortfall * n
        BY <3>1, <3>2 DEF w
      <4> QED BY <1>2, <3>4, <3>9, <4>1
    <3>11. w <= SpendCap[k] + LearnedLimit * Shortfall
      <4>1. w \in Int
        BY <3>7 DEF w
      <4> DEFINE a == Shortfall * n
                 b == LearnedLimit * Shortfall
                 c == spent + held + ReservedCost(r)
      <4>2. a <= b /\ c <= SpendCap[k] /\ w <= c + a
        BY <3>3, <3>8, <3>10
      <4>3. a \in Nat /\ b \in Nat /\ c \in Nat
        BY <3>9
      <4> HIDE DEF a, b, c
      <4>4. w <= SpendCap[k] + b
        BY <3>6, <4>1, <4>2, <4>3
      <4> QED BY <4>4 DEF b
    <3> QED BY <3>11 DEF w
  <2> QED BY <2>1, <2>2
<1> QED BY <1>4, <1>5, <1>6 DEF CapInv

LEMMA NextCap == IInv /\ CapInv /\ [Next]_vars => CapInv'
<1> SUFFICES ASSUME IInv, CapInv, [Next]_vars PROVE CapInv'
  OBVIOUS
<1>1. TypeOK /\ Stages /\ TypeOK'
  BY NextIInv DEF IInv
<1>2. CASE \E r \in Requests : Settle(r)
  BY <1>1, <1>2, SettleCap
<1>3. CASE \E r \in Requests : Admit(r) /\ ~shape[r].free
  BY <1>1, <1>3, AdmitCap
<1>4. CASE \A r \in Requests : ~Settle(r) /\ ~(Admit(r) /\ ~shape[r].free)
  <2>1. Eased
    BY <1>1, <1>4, StepsEase
  <2> QED BY <1>1, <2>1, EasedCap
<1> QED BY <1>2, <1>3, <1>4

\* Nothing weighs on any key at first.
LEMMA InitCap == Init => CapInv
<1> SUFFICES ASSUME Init PROVE CapInv
  OBVIOUS
<1>1. \A q \in Requests : rows[q] = Nothing /\ events[q] = Nothing
  BY DEF Init
<1>2. TypeOK
  BY InitIInv DEF IInv
<1>3. RowsSized
  BY <1>1 DEF RowsSized, RowSized
<1>4. FewShort
  <2>1. \A q \in Requests : ShortLive[q] = 0
    BY <1>1 DEF ShortLive, Live
  <2>2. SumFunctionOnSet(ShortLive, Requests) = 0
    BY <2>1, RequestsAssumption, SumZeros
  <2> QED BY <2>2, CeilingsAssumption DEF FewShort
<1>5. CapHolds
  <2> SUFFICES ASSUME NEW k \in Keys
               PROVE  SumFunctionOnSet(Load(k), Requests)
                        <= SpendCap[k] + LearnedLimit * Shortfall
    BY DEF CapHolds
  <2> DEFINE f == Load(k)
  <2>1. \A q \in Requests : f[q] = 0
    <3> SUFFICES ASSUME NEW q \in Requests PROVE f[q] = 0
      OBVIOUS
    <3>1. f[q] = 0 + 0 + 0 - 0 - 0 - 0
      BY <1>1, <1>2, LoadAt DEF Event, EventOfUser, EncumberingKey, Encumbering,
         Live, Mismatched, Overtaken, LateDue
    <3> QED BY <3>1
  <2> HIDE DEF f
  <2>2. SumFunctionOnSet(f, Requests) = 0
    BY <2>1, RequestsAssumption, SumZeros
  <2> USE DEF f
  <2>3. LearnedLimit * Shortfall \in Nat /\ SpendCap[k] \in Nat
    BY ShortfallBounds, CeilingsAssumption
  <2> QED BY <2>2, <2>3
<1> QED BY <1>3, <1>4, <1>5 DEF CapInv

\* What the bound allows each request, summed: the prices of the mismatched,
\* the fees of the overtaken, a shortfall for each late debt.
LEMMA Allowed ==
    ASSUME TypeOK
    PROVE  /\ SumFunction([q \in Mismatched |-> shape[q].full.price])
                = SumFunctionOnSet(ForMismatch, Requests)
           /\ SumFunction([q \in Overtaken |-> Fee(shape[q].full.price)])
                = SumFunctionOnSet(ForOvertaken, Requests)
           /\ Cardinality(LateDebts) \in Nat
           /\ SumFunctionOnSet(ForLate, Requests)
                <= Shortfall * Cardinality(LateDebts)
<1>1. SumFunction([q \in Mismatched |-> shape[q].full.price])
        = SumFunctionOnSet(ForMismatch, Requests)
  <2> DEFINE g == [q \in Mismatched |-> shape[q].full.price]
             h == ForMismatch
  <2>1. /\ DOMAIN g \subseteq Requests /\ \A q \in DOMAIN g : g[q] \in Int
        /\ h = Padded(g, DOMAIN g, Requests)
    <3>1. \A q \in Requests : shape[q].full.price \in Nat
      BY ShapeTyped, SizedTyped
    <3> QED BY <3>1 DEF Mismatched, ForMismatch, Padded
  <2> HIDE DEF g, h
  <2>2. SumFunction(g) = SumFunctionOnSet(h, Requests)
    BY <2>1, RequestsAssumption, SumWhole
  <2> QED BY <2>2 DEF g, h
<1>2. SumFunction([q \in Overtaken |-> Fee(shape[q].full.price)])
        = SumFunctionOnSet(ForOvertaken, Requests)
  <2> DEFINE g == [q \in Overtaken |-> Fee(shape[q].full.price)]
             h == ForOvertaken
  <2>1. /\ DOMAIN g \subseteq Requests /\ \A q \in DOMAIN g : g[q] \in Int
        /\ h = Padded(g, DOMAIN g, Requests)
    <3>1. \A q \in Requests : Fee(shape[q].full.price) \in Nat
      BY ShapeTyped, SizedTyped, FeeBounds
    <3> QED BY <3>1 DEF Overtaken, ForOvertaken, Padded
  <2> HIDE DEF g, h
  <2>2. SumFunction(g) = SumFunctionOnSet(h, Requests)
    BY <2>1, RequestsAssumption, SumWhole
  <2> QED BY <2>2 DEF g, h
<1>3. /\ IsFiniteSet(LateDebts) /\ Cardinality(LateDebts) \in Nat
      /\ LateDue \subseteq LateDebts /\ Cardinality(LateDue) \in Nat
      /\ Cardinality(LateDue) <= Cardinality(LateDebts)
  <2>1. LateDebts \subseteq Requests /\ LateDue \subseteq LateDebts
    BY DEF LateDebts, LateDue
  <2>2. IsFiniteSet(LateDebts)
    BY <2>1, RequestsAssumption, FS_Subset
  <2>3. IsFiniteSet(LateDue) /\ Cardinality(LateDue) <= Cardinality(LateDebts)
    BY <2>1, <2>2, FS_Subset
  <2> QED BY <2>1, <2>2, <2>3, FS_CardinalityType
<1>4. SumFunctionOnSet(ForLate, Requests) = Shortfall * Cardinality(LateDue)
  <2> DEFINE one == [q \in Requests |-> IF q \in LateDue THEN 1 ELSE 0]
             h == ForLate
             c == Shortfall
  <2>1. one \in [Requests -> {0, 1}]
    OBVIOUS
  <2>2. {q \in Requests : one[q] = 1} = LateDue
    BY DEF LateDue
  <2>3. \A q \in Requests : h[q] = c * one[q]
    <3> SUFFICES ASSUME NEW q \in Requests PROVE h[q] = c * one[q]
      OBVIOUS
    <3>1. q \in LateDue => h[q] = c /\ one[q] = 1
      BY DEF ForLate
    <3>2. q \notin LateDue => h[q] = 0 /\ one[q] = 0
      BY DEF ForLate
    <3>3. c \in Nat
      BY ShortfallBounds
    <3> HIDE DEF c, h, one
    <3> QED BY <3>1, <3>2, <3>3
  <2>4. c \in Int
    BY ShortfallBounds
  <2> HIDE DEF one, h, c
  <2>5. SumFunctionOnSet(one, Requests) = Cardinality(LateDue)
    BY <2>1, <2>2, RequestsAssumption, SumOnes
  <2>6. one \in [Requests -> Int]
    BY <2>1
  <2>7. SumFunctionOnSet(h, Requests) = c * SumFunctionOnSet(one, Requests)
    BY <2>3, <2>4, <2>6, RequestsAssumption, SumTimes
  <2> QED BY <2>5, <2>7 DEF h, c
<1>5. SumFunctionOnSet(ForLate, Requests) <= Shortfall * Cardinality(LateDebts)
  <2>1. Shortfall \in Nat
    BY ShortfallBounds
  <2> DEFINE a == Cardinality(LateDue)
             b == Cardinality(LateDebts)
             c == Shortfall
  <2>2. a \in Nat /\ b \in Nat /\ c \in Nat /\ a <= b
    BY <1>3, <2>1
  <2> HIDE DEF a, b, c
  <2>3. c * a <= c * b
    BY <2>2
  <2> QED BY <1>4, <2>3 DEF a, b, c
<1> QED BY <1>1, <1>2, <1>3, <1>5

\* What a key is charged is its load, with what the bound allows given back.
LEMMA DueIsCovered ==
    ASSUME TypeOK, NEW k \in Keys
    PROVE  SumFunctionOnSet(Due(k), Requests)
             <= SumFunctionOnSet(Load(k), Requests)
                + SumFunctionOnSet(ForMismatch, Requests)
                + SumFunctionOnSet(ForOvertaken, Requests)
                + SumFunctionOnSet(ForLate, Requests)
<1> DEFINE due == Due(k)
           load == Load(k)
           m == ForMismatch
           o == ForOvertaken
           l == ForLate
           a == [q \in Requests |-> load[q] + m[q]]
           b == [q \in Requests |-> a[q] + o[q]]
           c == [q \in Requests |-> b[q] + l[q]]
<1>1. /\ due \in [Requests -> Nat] /\ load \in [Requests -> Int]
      /\ m \in [Requests -> Nat] /\ o \in [Requests -> Nat]
      /\ l \in [Requests -> Nat]
  BY LoadTerms
<1>2. \A q \in Requests : due[q] <= load[q] + m[q] + o[q] + l[q]
  <2> SUFFICES ASSUME NEW q \in Requests
               PROVE  due[q] <= load[q] + m[q] + o[q] + l[q]
    OBVIOUS
  <2> DEFINE held == Encumbered(k)
             u == Unreserved(k)
  <2>1. load[q] = due[q] + held[q] + u[q] - m[q] - o[q] - l[q]
    BY DEF Load
  <2>2. held[q] \in Nat /\ u[q] \in Nat
    BY LoadTerms
  <2> HIDE DEF due, load, m, o, l, held, u
  <2> QED BY <1>1, <2>1, <2>2
<1> HIDE DEF due, load, m, o, l
<1>3. /\ \A q \in Requests : a[q] = load[q] + m[q]
      /\ \A q \in Requests : b[q] = a[q] + o[q]
      /\ \A q \in Requests : c[q] = b[q] + l[q]
  OBVIOUS
<1>4. /\ m \in [Requests -> Int] /\ o \in [Requests -> Int]
      /\ l \in [Requests -> Int]
  BY <1>1
<1>5. a \in [Requests -> Int]
  BY <1>1
<1>6. b \in [Requests -> Int]
  <2> HIDE DEF a
  <2> QED BY <1>1, <1>5
<1>7. \A q \in Requests : due[q] \in Int /\ c[q] \in Int /\ due[q] <= c[q]
  <2>1. \A q \in Requests : c[q] = load[q] + m[q] + o[q] + l[q]
    OBVIOUS
  <2> HIDE DEF a, b, c
  <2> QED BY <1>1, <1>2, <2>1
<1> HIDE DEF a, b, c
<1>8. SumFunctionOnSet(due, Requests) <= SumFunctionOnSet(c, Requests)
  BY <1>7, RequestsAssumption, SumGrows
<1>9. SumFunctionOnSet(c, Requests)
        = SumFunctionOnSet(b, Requests) + SumFunctionOnSet(l, Requests)
  BY <1>3, <1>4, <1>6, RequestsAssumption, SumPlus
<1>10. SumFunctionOnSet(b, Requests)
         = SumFunctionOnSet(a, Requests) + SumFunctionOnSet(o, Requests)
  BY <1>3, <1>4, <1>5, RequestsAssumption, SumPlus
<1>11. SumFunctionOnSet(a, Requests)
         = SumFunctionOnSet(load, Requests) + SumFunctionOnSet(m, Requests)
  BY <1>1, <1>3, <1>4, RequestsAssumption, SumPlus
<1>12. SumFunctionOnSet(due, Requests)
         <= SumFunctionOnSet(load, Requests) + SumFunctionOnSet(m, Requests)
            + SumFunctionOnSet(o, Requests) + SumFunctionOnSet(l, Requests)
  BY <1>8, <1>9, <1>10, <1>11
<1> QED BY <1>12 DEF due, load, m, o, l

LEMMA CapBounds == TypeOK /\ CapInv => SpendBounded
<1> SUFFICES ASSUME TypeOK, CapInv, NEW k \in Keys
             PROVE  Spent(k, "monthly") <=
                      SpendCap[k]
                      + (LearnedLimit + Cardinality(LateDebts)) * Shortfall
                      + SumFunction([q \in Mismatched |-> shape[q].full.price])
                      + SumFunction([q \in Overtaken |->
                                       Fee(shape[q].full.price)])
  BY DEF SpendBounded
<1> DEFINE due == SumFunctionOnSet(Due(k), Requests)
           load == SumFunctionOnSet(Load(k), Requests)
           m == SumFunctionOnSet(ForMismatch, Requests)
           o == SumFunctionOnSet(ForOvertaken, Requests)
           l == SumFunctionOnSet(ForLate, Requests)
           n == Cardinality(LateDebts)
           c == Shortfall
<1>1. Spent(k, "monthly") = due
  BY DueSum
<1>2. due <= load + m + o + l
  BY DueIsCovered
<1>3. load <= SpendCap[k] + LearnedLimit * c
  BY DEF CapInv, CapHolds
<1>4. /\ SumFunction([q \in Mismatched |-> shape[q].full.price]) = m
      /\ SumFunction([q \in Overtaken |-> Fee(shape[q].full.price)]) = o
      /\ n \in Nat /\ l <= c * n
  BY Allowed
<1>5. /\ due \in Int /\ load \in Int /\ m \in Int /\ o \in Int /\ l \in Int
  <2> DEFINE D == Due(k)
             L == Load(k)
             M == ForMismatch
             O == ForOvertaken
             T == ForLate
  <2>1. \A q \in Requests : /\ D[q] \in Int /\ L[q] \in Int /\ M[q] \in Int
                            /\ O[q] \in Int /\ T[q] \in Int
    <3>1. /\ D \in [Requests -> Nat] /\ L \in [Requests -> Int]
          /\ M \in [Requests -> Nat] /\ O \in [Requests -> Nat]
          /\ T \in [Requests -> Nat]
      BY LoadTerms
    <3> HIDE DEF D, L, M, O, T
    <3> QED BY <3>1
  <2> HIDE DEF D, L, M, O, T
  <2>2. /\ SumFunctionOnSet(D, Requests) \in Int
        /\ SumFunctionOnSet(L, Requests) \in Int
        /\ SumFunctionOnSet(M, Requests) \in Int
        /\ SumFunctionOnSet(O, Requests) \in Int
        /\ SumFunctionOnSet(T, Requests) \in Int
    BY <2>1, RequestsAssumption, SumType
  <2> QED BY <2>2 DEF D, L, M, O, T
<1>6. c \in Nat /\ LearnedLimit \in Nat /\ SpendCap[k] \in Nat
  BY ShortfallBounds, CeilingsAssumption
<1> HIDE DEF due, load, m, o, l, n, c
<1>7. (LearnedLimit + n) * c = LearnedLimit * c + c * n
  BY <1>4, <1>6
<1>8. LearnedLimit * c \in Nat /\ c * n \in Nat
  BY <1>4, <1>6
<1> DEFINE x == LearnedLimit * c
           y == c * n
           z == SpendCap[k]
<1>9. due <= z + (x + y) + m + o
  <2>1. load <= z + x /\ l <= y /\ x \in Nat /\ y \in Nat /\ z \in Nat
    BY <1>3, <1>4, <1>6, <1>8
  <2> HIDE DEF x, y, z
  <2> QED BY <1>2, <1>5, <2>1
<1> HIDE DEF x, y, z
<1>10. due <= z + (LearnedLimit + n) * c + m + o
  BY <1>7, <1>9 DEF x, y
<1> QED BY <1>1, <1>4, <1>10 DEF n, c, z

\* What a key is charged in a month stays within its cap, the shortfalls of as
\* many learned reservations as the concurrency gate lets stand together and of
\* the debts that outlived their TTL, and what changed credentials and a lost
\* allowance add (db.rs begin_usage_session and settle_once): for any number of
\* requests and keys and any prices.
THEOREM SpendStaysBounded == Spec => []SpendBounded
<1>1. Init => CapInv
  BY InitCap
<1>2. IInv /\ CapInv /\ [Next]_vars => CapInv'
  BY NextCap
<1>3. IInv /\ CapInv => SpendBounded
  BY CapBounds DEF IInv
<1> QED BY Invariant, <1>1, <1>2, <1>3, PTL DEF Spec

-----------------------------------------------------------------------------
(* The catalog.                                                            *)

\* The dearest of bounded rates is one of them and none is above it.
LEMMA DearestIsOne ==
    ASSUME NEW top \in Nat, NEW S \in SUBSET (0..top), S # {}
    PROVE  Dearest(S) \in S /\ \A x \in S : x <= Dearest(S)
<1> DEFINE Gaps == {n \in Nat : top - n \in S}
<1>1. Gaps # {}
  <2>1. PICK x \in S : TRUE
    OBVIOUS
  <2>2. top - x \in Nat /\ top - (top - x) = x
    BY <2>1
  <2> QED BY <2>1, <2>2
<1>2. PICK n \in Gaps : \A m \in Gaps : n <= m
  <2>1. \E n \in Gaps : \A m \in Gaps : ~(<<m, n>> \in OpToRel(<, Nat))
    <3>1. Gaps \subseteq Nat
      OBVIOUS
    <3> HIDE DEF Gaps
    <3> QED BY <3>1, <1>1, WFMin, NatLessThanWellFounded
  <2>2. PICK n \in Gaps : \A m \in Gaps : ~(<<m, n>> \in OpToRel(<, Nat))
    BY <2>1
  <2>3. ASSUME NEW m \in Gaps PROVE n <= m
    <3>1. m \in Nat /\ n \in Nat
      OBVIOUS
    <3>2. ~(m < n)
      BY <3>1, <2>2 DEF OpToRel
    <3> QED BY <3>1, <3>2
  <2> QED BY <2>3
<1>3. \A x \in S : x <= top - n
  <2>1. SUFFICES ASSUME NEW x \in S PROVE x <= top - n
    OBVIOUS
  <2>2. top - x \in Gaps
    <3>1. top - x \in Nat /\ top - (top - x) = x
      BY <2>1
    <3> QED BY <3>1
  <2>3. n \in Nat /\ n <= top - x
    BY <1>2, <2>2
  <2> QED BY <2>1, <2>3
<1>4. \E most \in S : \A x \in S : x <= most
  <2>1. top - n \in S
    BY <1>2
  <2> QED BY <2>1, <1>3
<1> QED BY <1>4 DEF Dearest

\* Products of naturals grow with their factors.
LEMMA TimesGrows ==
    ASSUME NEW a \in Nat, NEW b \in Nat, NEW x \in Nat, NEW y \in Nat,
           a <= b, x <= y
    PROVE  a * x <= b * y
<1>1. a * x <= b * x
  <2>1. PICK d \in Nat : b = a + d
    <3>1. b - a \in Nat /\ b = a + (b - a)
      OBVIOUS
    <3> QED BY <3>1
  <2>2. b * x = a * x + d * x
    BY <2>1
  <2>3. d * x \in Nat /\ a * x \in Nat
    OBVIOUS
  <2> QED BY <2>2, <2>3
<1>2. b * x <= b * y
  <2>1. PICK d \in Nat : y = x + d
    <3>1. y - x \in Nat /\ y = x + (y - x)
      OBVIOUS
    <3> QED BY <3>1
  <2>2. b * y = b * x + b * d
    BY <2>1
  <2>3. b * d \in Nat /\ b * x \in Nat
    OBVIOUS
  <2> QED BY <2>2, <2>3
<1>3. a * x \in Nat /\ b * x \in Nat /\ b * y \in Nat
  OBVIOUS
<1> QED BY <1>1, <1>2, <1>3

\* The table of a band is one of the schedule's.
LEMMA BandIsOfSchedule ==
    ASSUME NEW s, IsSchedule(s), NEW n \in Nat
    PROVE  /\ BandAt(s, n) \in DOMAIN s /\ BandAt(s, n) <= n
           /\ \A t \in DOMAIN s : t <= n => t <= BandAt(s, n)
<1> DEFINE S == {t \in DOMAIN s : t <= n}
<1>1. S \in SUBSET (0..n) /\ S # {}
  BY DEF IsSchedule
<1>2. Dearest(S) \in S /\ \A x \in S : x <= Dearest(S)
  BY <1>1, DearestIsOne
<1> QED BY <1>2 DEF BandAt

\* The rates a table bills at are rates.
LEMMA EffectiveRate ==
    ASSUME NEW table \in Tables, NEW d \in Dimensions
    PROVE  Effective(table, d) \in RateValues /\ Effective(table, d) \in Nat
  BY PricingAssumption DEF Effective, Tables, Dimensions, Required, Optional, RateValues

\* No band bills a dimension above the worst case.
LEMMA WorstCaseBounds ==
    ASSUME NEW s, IsSchedule(s), NEW t \in DOMAIN s, NEW d \in Dimensions
    PROVE  /\ WorstCase(s)[d] \in Nat
           /\ Effective(s[t], d) <= WorstCase(s)[d]
<1> DEFINE S == {Effective(s[b], d) : b \in DOMAIN s}
<1>1. S \in SUBSET (0..MaxRate) /\ S # {} /\ MaxRate \in Nat
  <2>1. \A b \in DOMAIN s : s[b] \in Tables
    BY DEF IsSchedule
  <2>2. \A b \in DOMAIN s : Effective(s[b], d) \in RateValues
    BY <2>1, EffectiveRate
  <2> QED BY <2>2, PricingAssumption DEF RateValues
<1>2. Dearest(S) \in S /\ \A x \in S : x <= Dearest(S)
  BY <1>1, DearestIsOne
<1>3. WorstCase(s)[d] = Dearest(S)
  BY DEF WorstCase
<1>4. Dearest(S) \in Nat
  BY <1>1, <1>2
<1>5. Effective(s[t], d) <= Dearest(S)
  BY <1>2
<1> HIDE DEF S
<1> QED BY <1>3, <1>4, <1>5

\* What is held for a token is no less than any band bills for it.
LEMMA ReservationDominates ==
    ASSUME NEW s, IsSchedule(s), NEW t \in DOMAIN s
    PROVE  /\ ReservationRates(s)["input"] \in Nat
           /\ ReservationRates(s)["output"] \in Nat
           /\ \A d \in {"input", "cached", "written"} :
                  Effective(s[t], d) <= ReservationRates(s)["input"]
           /\ Effective(s[t], "output") <= ReservationRates(s)["output"]
<1> DEFINE Prompt == {"input", "cached", "written"}
           S == {WorstCase(s)[d] : d \in Prompt}
<1>1. \A d \in Dimensions : /\ WorstCase(s)[d] \in Nat
                            /\ Effective(s[t], d) <= WorstCase(s)[d]
  BY WorstCaseBounds
<1>2. Prompt \subseteq Dimensions /\ "output" \in Dimensions
  BY DEF Dimensions, Required, Optional
<1>3. PICK top \in Nat : \A d \in Prompt : WorstCase(s)[d] <= top
  <2>1. \A d \in Prompt : WorstCase(s)[d] \in Nat
    BY <1>1, <1>2
  <2>2. /\ WorstCase(s)["input"] + WorstCase(s)["cached"] + WorstCase(s)["written"] \in Nat
        /\ \A d \in Prompt : WorstCase(s)[d] <=
              WorstCase(s)["input"] + WorstCase(s)["cached"] + WorstCase(s)["written"]
    BY <2>1
  <2> QED BY <2>2
<1>4. S \in SUBSET (0..top) /\ S # {}
  BY <1>1, <1>2, <1>3
<1>5. Dearest(S) \in S /\ \A x \in S : x <= Dearest(S)
  BY <1>4, DearestIsOne
<1>6. /\ ReservationRates(s)["input"] = Dearest(S)
      /\ ReservationRates(s)["output"] = WorstCase(s)["output"]
  BY DEF ReservationRates, WorstCase, Dimensions, Required, Optional
<1>7. \A d \in Prompt : WorstCase(s)[d] <= Dearest(S)
  BY <1>5
<1>8. \A d \in Prompt : Effective(s[t], d) <= Dearest(S)
  <2>1. SUFFICES ASSUME NEW d \in Prompt PROVE Effective(s[t], d) <= Dearest(S)
    OBVIOUS
  <2>2. s[t] \in Tables /\ d \in Dimensions
    BY <1>2, <2>1 DEF IsSchedule
  <2>3. Effective(s[t], d) \in Nat
    BY <2>2, EffectiveRate
  <2>4. Dearest(S) \in Nat
    BY <1>4, <1>5
  <2> QED BY <1>1, <1>7, <2>1, <2>2, <2>3, <2>4
<1> QED BY <1>1, <1>2, <1>4, <1>5, <1>6, <1>8

\* The three parts of a prompt are naturals and make it up.
LEMMA PromptSplits ==
    ASSUME NEW u, IsUsage(u)
    PROVE  /\ FreshOf(u) \in Nat /\ CachedOf(u) \in Nat /\ WrittenOf(u) \in Nat
           /\ FreshOf(u) + CachedOf(u) + WrittenOf(u) = u.prompt
           /\ u.prompt \in Nat /\ u.output \in Nat
  BY DEF IsUsage, FreshOf, CachedOf, WrittenOf, Smaller

\* A reservation covers whatever its request turns out to cost.
LEMMA HoldCovers ==
    ASSUME NEW s, IsSchedule(s), NEW u, IsUsage(u),
           NEW prompt \in Nat, NEW output \in Nat,
           u.prompt <= prompt, u.output <= output
    PROVE  Cost(At(s, u.prompt), u)
             <= Cost(ReservationRates(s), BoundOf(prompt, output))
<1> DEFINE t == BandAt(s, u.prompt)
           Holds == ReservationRates(s)
           f == FreshOf(u)   c == CachedOf(u)   w == WrittenOf(u)
<1>1. t \in DOMAIN s /\ At(s, u.prompt) = s[t]
  BY BandIsOfSchedule DEF At, IsUsage
<1>2. /\ f \in Nat /\ c \in Nat /\ w \in Nat /\ f + c + w = u.prompt
      /\ u.prompt \in Nat /\ u.output \in Nat
  BY PromptSplits
<1>3. /\ Holds["input"] \in Nat /\ Holds["output"] \in Nat
      /\ s[t]["input"] <= Holds["input"] /\ s[t]["output"] <= Holds["output"]
      /\ Effective(s[t], "cached") <= Holds["input"]
      /\ Effective(s[t], "written") <= Holds["input"]
      /\ s[t]["input"] \in Nat /\ s[t]["output"] \in Nat
      /\ Effective(s[t], "cached") \in Nat /\ Effective(s[t], "written") \in Nat
  <2>1. s[t] \in Tables
    BY <1>1 DEF IsSchedule
  <2>2. \A d \in Dimensions : Effective(s[t], d) \in Nat
    BY <2>1, EffectiveRate
  <2>3. \A d \in Required : Effective(s[t], d) = s[t][d]
    BY <2>1 DEF Effective, Tables, Required
  <2>4. \A d \in {"input", "cached", "written"} : Effective(s[t], d) <= Holds["input"]
    BY <1>1, ReservationDominates
  <2>5. /\ Holds["input"] \in Nat /\ Holds["output"] \in Nat
        /\ Effective(s[t], "output") <= Holds["output"]
    BY <1>1, ReservationDominates
  <2> QED BY <2>2, <2>3, <2>4, <2>5 DEF Dimensions, Required, Optional
<1>4. Cost(At(s, u.prompt), u) =
        f * s[t]["input"] + c * Effective(s[t], "cached")
        + w * Effective(s[t], "written") + u.output * s[t]["output"]
  BY <1>1 DEF Cost
<1>5. Cost(Holds, BoundOf(prompt, output)) = prompt * Holds["input"] + output * Holds["output"]
  <2> DEFINE b == BoundOf(prompt, output)
  <2>1. /\ b.prompt = prompt /\ b.output = output
        /\ CachedOf(b) = 0 /\ WrittenOf(b) = 0 /\ FreshOf(b) = prompt
    BY DEF BoundOf, CachedOf, WrittenOf, FreshOf, Smaller
  <2>2. /\ Effective(Holds, "cached") \in Nat
        /\ Effective(Holds, "written") \in Nat
    <3>1. Holds["cached"] \in Nat /\ Holds["written"] \in Nat
      <4>1. \A d \in Dimensions : WorstCase(s)[d] \in Nat
        BY <1>1, WorstCaseBounds
      <4> QED BY <4>1 DEF ReservationRates, WorstCase, Dimensions, Required, Optional
    <3> QED BY <3>1, <1>3 DEF Effective
  <2>3. Cost(Holds, b) = prompt * Holds["input"] + 0 * Effective(Holds, "cached")
                        + 0 * Effective(Holds, "written") + output * Holds["output"]
    BY <2>1 DEF Cost
  <2>4. 0 * Effective(Holds, "cached") = 0 /\ 0 * Effective(Holds, "written") = 0
    BY <2>2
  <2>5. prompt * Holds["input"] \in Nat /\ output * Holds["output"] \in Nat
    BY <1>3
  <2> HIDE DEF Holds
  <2> QED BY <2>3, <2>4, <2>5
<1>6. f * s[t]["input"] <= f * Holds["input"]
  BY <1>2, <1>3, TimesGrows
<1>7. c * Effective(s[t], "cached") <= c * Holds["input"]
  BY <1>2, <1>3, TimesGrows
<1>8. w * Effective(s[t], "written") <= w * Holds["input"]
  BY <1>2, <1>3, TimesGrows
<1>9. u.output * s[t]["output"] <= output * Holds["output"]
  BY <1>2, <1>3, TimesGrows
<1>10. f * Holds["input"] + c * Holds["input"] + w * Holds["input"] <= prompt * Holds["input"]
  <2>1. f * Holds["input"] + c * Holds["input"] + w * Holds["input"] = u.prompt * Holds["input"]
    BY <1>2, <1>3
  <2>2. u.prompt * Holds["input"] <= prompt * Holds["input"]
    BY <1>2, <1>3, TimesGrows
  <2> QED BY <2>1, <2>2
<1>11. /\ f * s[t]["input"] \in Nat /\ c * Effective(s[t], "cached") \in Nat
       /\ w * Effective(s[t], "written") \in Nat /\ u.output * s[t]["output"] \in Nat
       /\ f * Holds["input"] \in Nat /\ c * Holds["input"] \in Nat /\ w * Holds["input"] \in Nat
       /\ prompt * Holds["input"] \in Nat /\ output * Holds["output"] \in Nat
  BY <1>2, <1>3
<1> HIDE DEF f, c, w, t, Holds
<1> QED BY <1>4, <1>5, <1>6, <1>7, <1>8, <1>9, <1>10, <1>11 DEF Holds

\* A table no rate of which is above another's makes no usage dearer.
LEMMA CheaperTable ==
    ASSUME NEW a \in Tables, NEW b \in Tables, NEW u, IsUsage(u),
           \A d \in Dimensions : Effective(a, d) <= Effective(b, d)
    PROVE  Cost(a, u) <= Cost(b, u)
<1> DEFINE f == FreshOf(u)   c == CachedOf(u)   w == WrittenOf(u)
<1>1. f \in Nat /\ c \in Nat /\ w \in Nat /\ u.output \in Nat
  BY PromptSplits
<1>2. \A d \in Dimensions : /\ Effective(a, d) \in Nat /\ Effective(b, d) \in Nat
                            /\ Effective(a, d) <= Effective(b, d)
  BY EffectiveRate
<1>3. \A d \in Required : Effective(a, d) = a[d] /\ Effective(b, d) = b[d]
  BY DEF Effective, Tables, Required
<1>4. /\ a["input"] \in Nat /\ b["input"] \in Nat /\ a["input"] <= b["input"]
      /\ a["output"] \in Nat /\ b["output"] \in Nat /\ a["output"] <= b["output"]
  BY <1>2, <1>3 DEF Dimensions, Required
<1>5. /\ Effective(a, "cached") \in Nat /\ Effective(b, "cached") \in Nat
      /\ Effective(a, "cached") <= Effective(b, "cached")
      /\ Effective(a, "written") \in Nat /\ Effective(b, "written") \in Nat
      /\ Effective(a, "written") <= Effective(b, "written")
  BY <1>2 DEF Dimensions, Optional
<1> HIDE DEF f, c, w
<1>6. f * a["input"] <= f * b["input"]
  BY <1>1, <1>4, TimesGrows
<1>7. c * Effective(a, "cached") <= c * Effective(b, "cached")
  BY <1>1, <1>5, TimesGrows
<1>8. w * Effective(a, "written") <= w * Effective(b, "written")
  BY <1>1, <1>5, TimesGrows
<1>9. u.output * a["output"] <= u.output * b["output"]
  BY <1>1, <1>4, TimesGrows
<1>10. /\ f * a["input"] \in Nat /\ f * b["input"] \in Nat
       /\ c * Effective(a, "cached") \in Nat /\ c * Effective(b, "cached") \in Nat
       /\ w * Effective(a, "written") \in Nat /\ w * Effective(b, "written") \in Nat
       /\ u.output * a["output"] \in Nat /\ u.output * b["output"] \in Nat
  BY <1>1, <1>4, <1>5
<1> QED BY <1>6, <1>7, <1>8, <1>9, <1>10 DEF Cost, f, c, w

\* The table at a prompt is one of the tables.
LEMMA AtIsTable ==
    ASSUME NEW s, IsSchedule(s), NEW n \in Nat
    PROVE  At(s, n) \in Tables
  BY BandIsOfSchedule DEF At, IsSchedule

\* Probing the thresholds of both sides is probing every prompt.
LEMMA CoversEverywhere ==
    ASSUME NEW sells, IsSchedule(sells), NEW basis, IsSchedule(basis),
           Covers(sells, basis), NEW n \in Nat, NEW d \in Dimensions
    PROVE  Effective(At(basis, n), d) <= Effective(At(sells, n), d)
<1> DEFINE x == BandAt(sells, n)   y == BandAt(basis, n)
<1>1. /\ x \in DOMAIN sells /\ x <= n /\ \A t \in DOMAIN sells : t <= n => t <= x
      /\ y \in DOMAIN basis /\ y <= n /\ \A t \in DOMAIN basis : t <= n => t <= y
      /\ x \in Nat /\ y \in Nat
  BY BandIsOfSchedule DEF IsSchedule
<1>2. ASSUME NEW p \in Nat, p <= n, x <= p, y <= p
      PROVE  BandAt(sells, p) = x /\ BandAt(basis, p) = y
  <2>1. /\ BandAt(sells, p) \in DOMAIN sells /\ BandAt(sells, p) <= p
        /\ \A t \in DOMAIN sells : t <= p => t <= BandAt(sells, p)
        /\ BandAt(basis, p) \in DOMAIN basis /\ BandAt(basis, p) <= p
        /\ \A t \in DOMAIN basis : t <= p => t <= BandAt(basis, p)
    BY BandIsOfSchedule
  <2>2. BandAt(sells, p) \in Nat /\ BandAt(basis, p) \in Nat
    BY <2>1 DEF IsSchedule
  <2>3. BandAt(sells, p) <= n /\ BandAt(basis, p) <= n
    BY <1>2, <2>1, <2>2
  <2>4. BandAt(sells, p) <= x /\ BandAt(basis, p) <= y
    BY <1>1, <2>1, <2>3
  <2>5. x <= BandAt(sells, p) /\ y <= BandAt(basis, p)
    BY <1>1, <1>2, <2>1
  <2> HIDE DEF x, y
  <2> QED BY <1>1, <2>2, <2>4, <2>5
<1>3. CASE y <= x
  <2>1. BandAt(sells, x) = x /\ BandAt(basis, x) = y
    BY <1>1, <1>2, <1>3
  <2> QED BY <1>1, <2>1 DEF Covers, At
<1>4. CASE x <= y
  <2>1. BandAt(sells, y) = x /\ BandAt(basis, y) = y
    BY <1>1, <1>2, <1>4
  <2> QED BY <1>1, <2>1 DEF Covers, At
<1> HIDE DEF x, y
<1> QED BY <1>1, <1>3, <1>4

\* A seller that covers a cost is paid at least that cost, whatever is used.
LEMMA SoldAboveCost ==
    ASSUME NEW sells, IsSchedule(sells), NEW basis, IsSchedule(basis),
           Covers(sells, basis), NEW u, IsUsage(u)
    PROVE  Cost(At(basis, u.prompt), u) <= Cost(At(sells, u.prompt), u)
<1>1. u.prompt \in Nat
  BY DEF IsUsage
<1>2. At(basis, u.prompt) \in Tables /\ At(sells, u.prompt) \in Tables
  BY <1>1, AtIsTable
<1>3. \A d \in Dimensions :
        Effective(At(basis, u.prompt), d) <= Effective(At(sells, u.prompt), d)
  BY <1>1, CoversEverywhere
<1> HIDE DEF Cost
<1> QED BY <1>2, <1>3, CheaperTable

\* Covering carries over.
LEMMA CoversTransitive ==
    ASSUME NEW a, IsSchedule(a), NEW b, IsSchedule(b), NEW c, IsSchedule(c),
           Covers(a, b), Covers(b, c)
    PROVE  Covers(a, c)
<1>1. SUFFICES ASSUME NEW t \in DOMAIN a \cup DOMAIN c, NEW d \in Dimensions
               PROVE  Effective(At(c, t), d) <= Effective(At(a, t), d)
  BY DEF Covers
<1>2. t \in Nat
  BY DEF IsSchedule
<1>3. /\ Effective(At(c, t), d) <= Effective(At(b, t), d)
      /\ Effective(At(b, t), d) <= Effective(At(a, t), d)
  BY <1>2, CoversEverywhere
<1>4. /\ Effective(At(a, t), d) \in Nat /\ Effective(At(b, t), d) \in Nat
      /\ Effective(At(c, t), d) \in Nat
  BY <1>2, AtIsTable, EffectiveRate
<1> QED BY <1>3, <1>4

\* The dearest of schedules with the same bands is one, and covers each.
LEMMA DearestAcrossCovers ==
    ASSUME NEW schedules, schedules # {}, SameBands(schedules),
           \A s \in schedules : IsSchedule(s)
    PROVE  /\ IsSchedule(DearestAcross(schedules))
           /\ \A s \in schedules : Covers(DearestAcross(schedules), s)
<1> DEFINE all == DearestAcross(schedules)
           Bands == UNION {DOMAIN s : s \in schedules}
           Rates(t, d) == {Effective(s[t], d) : s \in schedules}
<1>1. PICK one \in schedules : TRUE
  OBVIOUS
<1>2. \A s \in schedules : DOMAIN s = Bands
  <2>1. \A s, r \in schedules : DOMAIN s = DOMAIN r
    BY DEF SameBands
  <2> QED BY <2>1
<1>3. \A s \in schedules, t \in Bands : s[t] \in Tables
  BY <1>2 DEF IsSchedule
<1>4. ASSUME NEW t \in Bands, NEW d \in Dimensions
      PROVE  /\ Dearest(Rates(t, d)) \in 0..MaxRate
             /\ \A s \in schedules : Effective(s[t], d) <= Dearest(Rates(t, d))
  <2>1. \A s \in schedules : Effective(s[t], d) \in 0..MaxRate
    BY <1>3, EffectiveRate DEF RateValues
  <2>2. Rates(t, d) \in SUBSET (0..MaxRate) /\ Rates(t, d) # {}
    BY <1>1, <2>1
  <2>3. /\ Dearest(Rates(t, d)) \in Rates(t, d)
        /\ \A x \in Rates(t, d) : x <= Dearest(Rates(t, d))
    BY <2>2, PricingAssumption, DearestIsOne
  <2>4. \A s \in schedules : Effective(s[t], d) \in Rates(t, d)
    OBVIOUS
  <2> HIDE DEF Rates
  <2> QED BY <2>2, <2>3, <2>4
<1>5. DOMAIN all = Bands
  BY DEF DearestAcross
<1>6. ASSUME NEW t \in Bands, NEW d \in Dimensions
      PROVE  all[t][d] = IF d \in Optional /\ \A s \in schedules : s[t][d] = Absent
                           THEN Absent ELSE Dearest(Rates(t, d))
  BY DEF DearestAcross
<1>7. ASSUME NEW t \in Bands PROVE all[t] \in Tables
  <2>1. all[t] = [d \in Dimensions |-> all[t][d]]
    BY DEF DearestAcross
  <2>2. \A d \in Dimensions : all[t][d] \in RateValues \cup {Absent}
    BY <1>4, <1>6 DEF RateValues
  <2>3. \A d \in Required : all[t][d] # Absent
    <3>1. SUFFICES ASSUME NEW d \in Required PROVE all[t][d] # Absent
      OBVIOUS
    <3>2. d \in Dimensions /\ d \notin Optional
      BY DEF Dimensions, Required, Optional
    <3>3. all[t][d] = Dearest(Rates(t, d))
      BY <1>6, <3>2
    <3>4. Dearest(Rates(t, d)) \in 0..MaxRate
      BY <1>4, <3>2
    <3> HIDE DEF all, Rates
    <3> QED BY <3>3, <3>4, PricingAssumption
  <2>4. all[t] \in [Dimensions -> RateValues \cup {Absent}]
    <3> HIDE DEF all
    <3> QED BY <2>1, <2>2
  <2> HIDE DEF all
  <2> QED BY <2>3, <2>4 DEF Tables
<1>8. IsSchedule(all)
  <2>1. Bands \subseteq Nat /\ 0 \in Bands
    BY <1>1, <1>2 DEF IsSchedule
  <2> HIDE DEF all, Bands
  <2> QED BY <1>5, <1>7, <2>1 DEF IsSchedule
<1>9. ASSUME NEW t \in Bands, NEW d \in Dimensions, NEW s \in schedules
      PROVE  Effective(s[t], d) <= Effective(all[t], d)
  <2>1. CASE all[t][d] # Absent
    <3>1. Effective(all[t], d) = Dearest(Rates(t, d))
      BY <2>1, <1>6 DEF Effective
    <3> QED BY <3>1, <1>4
  <2>2. CASE all[t][d] = Absent
    <3>1. \A r \in schedules : r[t][d] = Absent
      <4>1. Dearest(Rates(t, d)) \in 0..MaxRate
        BY <1>4
      <4>2. Dearest(Rates(t, d)) # Absent
        <5> HIDE DEF Rates
        <5> QED BY <4>1, PricingAssumption
      <4> QED BY <2>2, <4>2, <1>6
    <3>2. Effective(s[t], d) = s[t]["input"] /\ Effective(all[t], d) = all[t]["input"]
      BY <2>2, <3>1 DEF Effective
    <3>3. "input" \in Dimensions /\ "input" \notin Optional
      BY DEF Dimensions, Required, Optional
    <3>4. all[t]["input"] = Dearest(Rates(t, "input"))
      BY <1>6, <3>3
    <3>5. Effective(s[t], "input") <= Dearest(Rates(t, "input"))
      BY <1>4, <3>3
    <3>6. Effective(s[t], "input") = s[t]["input"]
      BY DEF Effective
    <3> HIDE DEF all, Rates
    <3> QED BY <3>2, <3>4, <3>5, <3>6
  <2> QED BY <2>1, <2>2
<1>10. ASSUME NEW s \in schedules PROVE Covers(all, s)
  <2>1. SUFFICES ASSUME NEW t \in DOMAIN all \cup DOMAIN s, NEW d \in Dimensions
                 PROVE  Effective(At(s, t), d) <= Effective(At(all, t), d)
    BY DEF Covers
  <2>2. t \in Bands /\ DOMAIN s = DOMAIN all /\ t \in Nat
    BY <1>2, <1>5, <2>1, <1>8 DEF IsSchedule
  <2>3. BandAt(s, t) = BandAt(all, t)
    BY <2>2 DEF BandAt
  <2>4. BandAt(all, t) \in Bands
    BY <1>5, <1>8, <2>2, BandIsOfSchedule
  <2> HIDE DEF all, Bands
  <2> QED BY <1>9, <2>3, <2>4 DEF At
<1> QED BY <1>8, <1>10

\* What is free costs nothing, whatever is used.
LEMMA FreeCostsNothing ==
    ASSUME NEW s, IsSchedule(s), IsFree(s), NEW u, IsUsage(u)
    PROVE  Cost(At(s, u.prompt), u) = 0
<1> DEFINE table == At(s, u.prompt)
<1>1. table \in Tables /\ BandAt(s, u.prompt) \in DOMAIN s
  BY AtIsTable, BandIsOfSchedule DEF IsUsage
<1>2. \A d \in Dimensions : Effective(table, d) = 0
  <2>1. SUFFICES ASSUME NEW d \in Dimensions PROVE Effective(table, d) = 0
    OBVIOUS
  <2>2. Effective(table, d) <= WorstCase(s)[d]
    BY <1>1, WorstCaseBounds DEF At
  <2>3. WorstCase(s)[d] = 0 /\ Effective(table, d) \in Nat
    BY <1>1, EffectiveRate DEF IsFree
  <2> HIDE DEF table
  <2> QED BY <2>2, <2>3
<1>3. table["input"] = 0 /\ table["output"] = 0
  <2>1. \A d \in Required : Effective(table, d) = table[d]
    BY <1>1 DEF Effective, Tables, Required
  <2> QED BY <1>2, <2>1 DEF Dimensions, Required
<1>4. Effective(table, "cached") = 0 /\ Effective(table, "written") = 0
  BY <1>2 DEF Dimensions, Optional
<1>5. /\ FreshOf(u) \in Nat /\ CachedOf(u) \in Nat /\ WrittenOf(u) \in Nat
      /\ u.output \in Nat
  BY PromptSplits
<1> HIDE DEF table
<1>6. Cost(table, u) = FreshOf(u) * 0 + CachedOf(u) * 0 + WrittenOf(u) * 0 + u.output * 0
  BY <1>3, <1>4 DEF Cost
<1> QED BY <1>5, <1>6 DEF table

\* What a usage costs is a number.
LEMMA BilledIsInt ==
    ASSUME NEW s, IsSchedule(s), NEW u, IsUsage(u)
    PROVE  Cost(At(s, u.prompt), u) \in Int
<1> DEFINE table == At(s, u.prompt)
<1>1. table \in Tables
  BY AtIsTable DEF IsUsage
<1>2. \A d \in Dimensions : Effective(table, d) \in Nat
  BY <1>1, EffectiveRate
<1>3. table["input"] \in Nat /\ table["output"] \in Nat
  <2>1. \A d \in Required : Effective(table, d) = table[d]
    BY <1>1 DEF Effective, Tables, Required
  <2> QED BY <1>2, <2>1 DEF Dimensions, Required
<1>4. Effective(table, "cached") \in Nat /\ Effective(table, "written") \in Nat
  BY <1>2 DEF Dimensions, Optional
<1>5. /\ FreshOf(u) \in Nat /\ CachedOf(u) \in Nat /\ WrittenOf(u) \in Nat
      /\ u.output \in Nat
  BY PromptSplits
<1> HIDE DEF table
<1> QED BY <1>3, <1>4, <1>5 DEF Cost, table

-----------------------------------------------------------------------------
(* Routes.                                                                 *)

\* What any route of a served file is: it sells by a schedule that covers the
\* cost of each of its lanes.
Priced(route) ==
    /\ IsSchedule(route.sells)
    /\ \A lane \in route.lanes : IsSchedule(lane.basis) /\ Covers(route.sells, lane.basis)

\* A model is sold by a schedule that covers the one of each lane's own id.
AboveItsPins(f, route) ==
    \A lane \in route.lanes :
        /\ IsSchedule(Pinned(f, lane.id).sells)
        /\ Covers(route.sells, Pinned(f, lane.id).sells)

LEMMA ServedTierIsPriced ==
    ASSUME NEW f \in Files, NEW t \in Served(f)
    PROVE  /\ t \in DOMAIN f.tiers /\ IsSchedule(f.tiers[t].sells)
           /\ \A lane \in f.tiers[t].lanes :
                 IsSchedule(lane.basis) /\ Covers(f.tiers[t].sells, lane.basis)
  BY FilesAssumption DEF Served, Solvent, IsFile, IsLane

\* A pin sells at the price of the tier that owns the lane.
LEMMA PinnedIsPriced ==
    ASSUME NEW f \in Files, NEW id, Pinned(f, id) # NoRoute
    PROVE  Priced(Pinned(f, id)) /\ ~Pinned(f, id).routed
<1> DEFINE owners == {t \in Served(f) : \E lane \in f.tiers[t].lanes : lane.id = id}
<1>1. CASE id \in Served(f)
  <2>1. Pinned(f, id) = RouteTo(f, id, f.tiers[id].lanes)
    BY <1>1 DEF Pinned
  <2> QED BY <1>1, <2>1, ServedTierIsPriced DEF RouteTo, Priced
<1>2. CASE id \notin Served(f)
  <2>1. owners # {}
    BY <1>2 DEF Pinned
  <2>2. PICK t \in owners :
           Pinned(f, id) = RouteTo(f, t, {lane \in f.tiers[t].lanes : lane.id = id})
    BY <1>2, <2>1 DEF Pinned
  <2> QED BY <2>2, ServedTierIsPriced DEF RouteTo, Priced
<1> QED BY <1>1, <1>2

\* In a sound file the id of a lane is pinned at its own tier's price.
LEMMA PinOfLane ==
    ASSUME NEW f \in Files, Sound(f), NEW t \in Served(f), NEW lane \in f.tiers[t].lanes
    PROVE  Pinned(f, lane.id).sells = f.tiers[t].sells
<1> DEFINE owners == {s \in Served(f) : \E l \in f.tiers[s].lanes : l.id = lane.id}
<1>1. t \in DOMAIN f.tiers /\ t \in owners
  BY DEF Served
<1>2. \A s \in DOMAIN f.tiers : (\E l \in f.tiers[s].lanes : l.id = lane.id) => s = t
  BY <1>1 DEF Sound
<1>3. CASE lane.id \in Served(f)
  <2>1. Pinned(f, lane.id) = RouteTo(f, lane.id, f.tiers[lane.id].lanes)
    BY <1>3 DEF Pinned
  <2>2. lane.id \in DOMAIN f.tiers
    BY <1>3 DEF Served
  <2>3. lane.id \notin Reserved
    BY <1>1 DEF Sound
  <2>4. \E l \in f.tiers[lane.id].lanes : l.id = lane.id
    BY <2>2, <2>3 DEF Sound
  <2>5. lane.id = t
    BY <1>2, <2>2, <2>4
  <2> QED BY <2>1, <2>5 DEF RouteTo
<1>4. CASE lane.id \notin Served(f)
  <2>1. PICK s \in owners :
           Pinned(f, lane.id) = RouteTo(f, s, {l \in f.tiers[s].lanes : l.id = lane.id})
    BY <1>1, <1>4 DEF Pinned
  <2>2. s = t
    BY <1>2, <2>1 DEF Served
  <2> QED BY <2>1, <2>2 DEF RouteTo
<1> QED BY <1>3, <1>4

LEMMA UnifiedIsPriced ==
    ASSUME NEW f \in Files, Sound(f), NEW bare, Unified(f, bare) # NoRoute
    PROVE  Priced(Unified(f, bare)) /\ AboveItsPins(f, Unified(f, bare))
<1> DEFINE members == Members(f, bare)
           route == Unified(f, bare)
           prices == {f.tiers[m[1]].sells : m \in members}
           providers == {lane.provider : lane \in route.lanes}
<1>1. /\ route.lanes = {m[2] : m \in members}
      /\ route.sells = DearestAcross(prices)
      /\ SameBands(prices)
      /\ Cardinality(providers) > 1
  BY DEF Unified, UnifiedPrice
<1>2. \A m \in members : m[1] \in Served(f) /\ m[2] \in f.tiers[m[1]].lanes
  BY DEF Members
<1>3. prices # {}
  <2>1. CASE members = {}
    <3>1. providers = {}
      BY <1>1, <2>1
    <3> HIDE DEF providers
    <3>2. Cardinality(providers) = 0
      BY <3>1, FS_EmptySet
    <3> QED BY <1>1, <3>2
  <2>2. CASE members # {}
    BY <2>2
  <2> QED BY <2>1, <2>2
<1>4. \A s \in prices : IsSchedule(s)
  BY <1>2, ServedTierIsPriced
<1>5. IsSchedule(route.sells) /\ \A s \in prices : Covers(route.sells, s)
  <2> HIDE DEF prices, route
  <2> QED BY <1>1, <1>3, <1>4, DearestAcrossCovers
<1>6. ASSUME NEW m \in members
      PROVE  /\ IsSchedule(m[2].basis) /\ Covers(route.sells, m[2].basis)
             /\ IsSchedule(Pinned(f, m[2].id).sells)
             /\ Covers(route.sells, Pinned(f, m[2].id).sells)
  <2> DEFINE price == f.tiers[m[1]].sells
  <2>1. IsSchedule(price) /\ Covers(route.sells, price)
    BY <1>4, <1>5
  <2>2. IsSchedule(m[2].basis) /\ Covers(price, m[2].basis)
    BY <1>2, ServedTierIsPriced
  <2>3. Pinned(f, m[2].id).sells = price
    BY <1>2, PinOfLane
  <2>4. Covers(route.sells, m[2].basis)
    <3> HIDE DEF route, price
    <3> QED BY <1>5, <2>1, <2>2, CoversTransitive
  <2> QED BY <2>1, <2>2, <2>3, <2>4
<1> QED BY <1>1, <1>5, <1>6 DEF Priced, AboveItsPins

LEMMA RouteIsPriced ==
    ASSUME NEW f \in Files, Sound(f), NEW id, NEW unifies, RouteOf(f, id, unifies) # NoRoute
    PROVE  LET route == RouteOf(f, id, unifies)
           IN  Priced(route) /\ (route.routed => AboveItsPins(f, route))
<1>1. CASE Pinned(f, id) # NoRoute
  BY <1>1, PinnedIsPriced DEF RouteOf
<1>2. CASE Pinned(f, id) = NoRoute
  BY <1>2, UnifiedIsPriced DEF RouteOf
<1> QED BY <1>1, <1>2

-----------------------------------------------------------------------------

\* What holds between admission and settlement, and what settlement leaves.
Opened ==
    /\ request.from \in Files
    /\ Priced(request.route)
    /\ request.route.routed => AboveItsPins(request.from, request.route)
    /\ request.built \subseteq request.route.lanes
    /\ request.bound \in Bounds
    /\ request.metered = ~Unmetered(request.route, request.built)
    /\ request.held = Cost(ReservationRates(request.route.sells),
                           BoundOf(request.bound.prompt, request.bound.output))

PricingInv ==
    /\ file \in Files
    /\ request.phase = "open" => Opened
    /\ ReservationCovers /\ NeverBelowCost /\ NeverUndercutsPin

THEOREM PricesHold == CatalogSpec => []PricingInv
<1>1. CatalogInit => PricingInv
  BY DEF CatalogInit, PricingInv, NewRequest, ReservationCovers, NeverBelowCost,
         NeverUndercutsPin
<1>2. PricingInv /\ [CatalogNext]_catalogVars => PricingInv'
  <2> SUFFICES ASSUME PricingInv, [CatalogNext]_catalogVars PROVE PricingInv'
    OBVIOUS
  <2>1. ASSUME NEW f \in Files, Deploy(f) PROVE PricingInv'
    BY <2>1 DEF Deploy, PricingInv, Opened, ReservationCovers, NeverBelowCost,
                NeverUndercutsPin
  <2>2. ASSUME NEW id, NEW asks, NEW able, TurnAway(id, asks, able) PROVE PricingInv'
    BY <2>2 DEF TurnAway, PricingInv, ReservationCovers, NeverBelowCost, NeverUndercutsPin
  <2>3. ASSUME NEW id, NEW asks, NEW able, NEW b \in Bounds, Take(id, asks, able, b)
        PROVE  PricingInv'
    <3> DEFINE route == RouteOf(file, id, asks.unifies)
               built == {lane \in Eligible(route, asks) : lane.provider \in able}
    <3>1. /\ file \in Files /\ Sound(file) /\ route # NoRoute /\ file' = file
          /\ request'.phase = "open" /\ request'.from = file /\ request'.route = route
          /\ request'.built = built /\ request'.bound = b
          /\ request'.metered = ~Unmetered(route, built)
          /\ request'.held =
                Cost(ReservationRates(route.sells), BoundOf(b.prompt, b.output))
      BY <2>3 DEF Take, Loads, PricingInv
    <3>2. Priced(route) /\ (route.routed => AboveItsPins(file, route))
      BY <3>1, RouteIsPriced
    <3>3. built \subseteq route.lanes
      BY DEF Eligible, AfterGates
    <3> HIDE DEF route, built
    <3>4. Opened'
      BY <3>1, <3>2, <3>3 DEF Opened
    <3> QED BY <3>1, <3>4 DEF PricingInv, ReservationCovers, NeverBelowCost, NeverUndercutsPin
  <2>4. ASSUME NEW lane, NEW u \in Reports, Bill(lane, u) PROVE PricingInv'
    <3> DEFINE route == request.route
               b == request.bound
    <3>1. /\ Opened /\ lane \in request.built /\ FitsIn(u, b) /\ file' = file /\ file \in Files
          /\ request'.phase = "billed" /\ request'.from = request.from
          /\ request'.route = route /\ request'.lane = lane /\ request'.usage = u
          /\ request'.metered = request.metered /\ request'.held = request.held
          /\ request'.charged = IF request.metered THEN Billed(route, u) ELSE 0
          /\ request'.spent = SpentOn(lane, u)
      BY <2>4 DEF Bill, PricingInv
    <3>2. /\ IsUsage(u) /\ lane \in route.lanes /\ b.prompt \in Nat /\ b.output \in Nat
          /\ IsSchedule(route.sells) /\ IsSchedule(lane.basis)
          /\ Covers(route.sells, lane.basis)
      BY <3>1, ReportsAssumption, BoundsAssumption DEF Opened, Priced
    <3>3. SpentOn(lane, u) <= Billed(route, u)
      BY <3>2, SoldAboveCost DEF SpentOn, Billed
    <3>4. ~request.metered => Billed(route, u) = 0
      BY <3>1, <3>2, FreeCostsNothing DEF Opened, Unmetered, Billed
    <3>5. Billed(route, u) <= request.held
      BY <3>1, <3>2, HoldCovers DEF Opened, FitsIn, Billed
    <3>6. route.routed => Billed(Pinned(request.from, lane.id), u) <= Billed(route, u)
      BY <3>1, <3>2, SoldAboveCost DEF Opened, AboveItsPins, Billed
    <3>7. ReservationCovers'
      BY <3>1, <3>5 DEF ReservationCovers
    <3>8. request'.charged = Billed(route, u)
      BY <3>1, <3>4
    <3>9. NeverBelowCost'
      BY <3>1, <3>3, <3>4, <3>8 DEF NeverBelowCost
    <3>10. NeverUndercutsPin'
      <4>1. SUFFICES ASSUME route.routed
                     PROVE  request'.charged >= Billed(Pinned(request.from, lane.id), u)
        BY <3>1 DEF NeverUndercutsPin
      <4>2. /\ Billed(Pinned(request.from, lane.id), u) \in Int
            /\ Billed(route, u) \in Int
        BY <3>1, <3>2, <4>1, BilledIsInt DEF Opened, AboveItsPins, Billed
      <4> QED BY <3>6, <3>8, <4>1, <4>2
    <3> QED BY <3>1, <3>7, <3>9, <3>10 DEF PricingInv
  <2>5. CASE UNCHANGED catalogVars
    BY <2>5 DEF catalogVars, PricingInv, Opened, ReservationCovers, NeverBelowCost,
                NeverUndercutsPin
  <2> QED BY <2>1, <2>2, <2>3, <2>4, <2>5 DEF CatalogNext
<1> QED BY <1>1, <1>2, PTL DEF CatalogSpec

\* A settlement never costs more than its request holds, at any schedules, any
\* bounds and any report within them (sized_reservation, persist_usage).
THEOREM HoldsCoverCharges == CatalogSpec => []ReservationCovers
  BY PricesHold, PTL DEF PricingInv

\* Nothing is sold below its cost, metered or not (validate_candidate_margin,
\* synthesize_unified, free_lane_admissible).
THEOREM NothingBelowCost == CatalogSpec => []NeverBelowCost
  BY PricesHold, PTL DEF PricingInv

\* The bare name of a model is never the cheaper way to a lane
\* (synthesize_unified, RateSchedule::dearest_across).
THEOREM NamesNeverUndercut == CatalogSpec => []NeverUndercutsPin
  BY PricesHold, PTL DEF PricingInv

-----------------------------------------------------------------------------
(* The life of the tier file.  A lane carries with it why it may be published *)
(* zero, and a pin what was read for it; neither depends on the rest of the   *)
(* file, so a merge and a new label of its provider leave both as they are.   *)

\* Why a lane's own label, or the one it inherits, is not an unearned zero.
LaneHonest(lane) ==
    /\ lane.provider \in Providers /\ lane.pin \in Pins \cup {Absent}
    /\ \/ lane.earned
       \/ lane.pin = Absent /\ lane.saw # "zero"
       \/ lane.pin # Absent /\ lane.pin.posture # "zero"

\* A digest is of what was read: the passage, or the page, also where it is a
\* passage that was asked for, which no page then answers to.
PinRead(pin) ==
    /\ pin \in Pins
    /\ \/ pin.digest = Evidence(pin, pin.read)
       \/ pin.digest = WholePage(pin.read)

\* A draft says what its lane will be, while its provider stands as it found it.
DraftSays(d) ==
    /\ LaneHonest(d.lane) /\ (d.lane.pin # Absent => PinRead(d.lane.pin))
    /\ d.lane.pin # Absent => d.lane.pin.posture = d.says
    /\ d.lane.pin = Absent => \/ d.says = "zero" /\ d.lane.saw = "zero"
                              \/ d.says = "standard" /\ d.lane.saw # "zero"

UpkeepInv ==
    /\ page \in Pages
    /\ DOMAIN tierFile = {"pins", "lanes"} /\ DOMAIN tierFile.pins = Providers
    /\ \A p \in Providers : tierFile.pins[p] # Absent => PinRead(tierFile.pins[p])
    /\ \A lane \in tierFile.lanes :
         /\ LaneHonest(lane) /\ tierFile.pins[lane.provider] # Absent
         /\ lane.pin # Absent => PinRead(lane.pin)
    /\ draft # Absent => DraftSays(draft)

LEMMA PinIs ==
    ASSUME NEW posture \in Labels, NEW anchored \in BOOLEAN, NEW read \in Pages, NEW digest,
           \/ digest = WholePage(read)
           \/ digest = Evidence([anchored |-> anchored], read)
    PROVE  /\ PinRead(Pin(posture, digest, anchored, read))
           /\ Pin(posture, digest, anchored, read) # Absent
           /\ Pin(posture, digest, anchored, read).posture = posture
<1> DEFINE pin == Pin(posture, digest, anchored, read)
<1>1. digest \in {Absent} \cup {<<p.passage>> : p \in Pages} \cup {WholePage(p) : p \in Pages}
  BY DEF Evidence, Extract
<1>2. /\ pin \in Pins /\ pin.posture = posture /\ pin.digest = digest
      /\ pin.anchored = anchored /\ pin.read = read
  BY <1>1 DEF Pin, Pins
<1>3. Evidence(pin, read) = Evidence([anchored |-> anchored], read)
  BY <1>2 DEF Evidence
<1>4. pin # Absent
  BY <1>2, UpkeepAssumption
<1> HIDE DEF pin
<1>5. PinRead(pin)
  BY <1>2, <1>3 DEF PinRead
<1> QED BY <1>2, <1>4, <1>5 DEF pin

\* What is read anew, and what a dossier brought.
LEMMA ReadIs ==
    ASSUME NEW posture \in Labels, NEW anchored \in BOOLEAN, NEW read \in Pages
    PROVE  PinRead(ReadOn(read, posture, anchored)) /\ ReadOn(read, posture, anchored) # Absent
BY PinIs DEF ReadOn

LEMMA BroughtIs ==
    ASSUME NEW posture \in Labels, NEW e, e.anchored \in BOOLEAN, NEW read \in Pages
    PROVE  /\ PinRead(PinFrom(e, posture, read)) /\ PinFrom(e, posture, read) # Absent
           /\ PinFrom(e, posture, read).posture = posture
<1>1. \/ AnchoredDigest(e, read) = WholePage(read)
      \/ AnchoredDigest(e, read) = Evidence([anchored |-> e.anchored], read)
  BY DEF AnchoredDigest, Evidence
<1> QED BY <1>1, PinIs DEF PinFrom

LEMMA UpkeepStarts == UpkeepInit => UpkeepInv
<1> SUFFICES ASSUME UpkeepInit PROVE UpkeepInv
  OBVIOUS
<1>1. PICK postures \in [Providers -> {"zero", "standard", "none"}] :
        tierFile = [pins |-> [p \in Providers |->
                       IF postures[p] = "none" THEN Absent
                       ELSE ReadOn(page, postures[p], TRUE)],
                    lanes |-> {l \in Started : postures[l.provider] # "none"}]
  BY DEF UpkeepInit
<1>2. page \in Pages /\ draft = Absent
  BY DEF UpkeepInit
<1>3. ASSUME NEW p \in Providers, postures[p] # "none"
      PROVE  tierFile.pins[p] # Absent /\ PinRead(tierFile.pins[p])
  <2>1. postures[p] \in Labels
    BY <1>3 DEF Labels
  <2>2. tierFile.pins[p] = ReadOn(page, postures[p], TRUE)
    BY <1>1, <1>3
  <2> QED BY <1>2, <2>1, <2>2, ReadIs
<1>4. \A lane \in tierFile.lanes :
        /\ lane \in Started /\ lane.provider \in Providers /\ postures[lane.provider] # "none"
        /\ lane.pin = Absent /\ lane.earned
  BY <1>1, UpkeepAssumption
<1>5. \A p \in Providers : postures[p] = "none" => tierFile.pins[p] = Absent
  BY <1>1
<1>6. DOMAIN tierFile = {"pins", "lanes"} /\ DOMAIN tierFile.pins = Providers
  BY <1>1
<1> QED BY <1>2, <1>3, <1>4, <1>5, <1>6 DEF UpkeepInv, LaneHonest

LEMMA LabelOf ==
    ASSUME UpkeepInv, NEW p \in Providers
    PROVE  PostureOfPin(tierFile.pins[p]) \in Labels \cup {"none"}
BY DEF UpkeepInv, PinRead, Pins, PostureOfPin

LEMMA Drafts ==
    ASSUME UpkeepInv, NEW d \in Dossiers, Draft(d)
    PROVE  UpkeepInv'
<1> DEFINE pinned == PostureOfPin(tierFile.pins[d.provider])
           resolved == PostureResolved(d, pinned, page)
<1>1. /\ UNCHANGED <<page, tierFile>> /\ ~resolved.refused
      /\ draft'.lane.provider = d.provider /\ draft'.lane.pin = resolved.pin
      /\ draft'.lane.earned = EarnsZero(d) /\ draft'.lane.saw = pinned
      /\ draft'.says = resolved.posture
  BY DEF Draft, Draftable
<1>2. d.provider \in Providers /\ page \in Pages
  BY UpkeepAssumption DEF UpkeepInv
<1>3. pinned \in Labels \cup {"none"}
  BY <1>2, LabelOf
<1>4. d.basis # Absent => d.basis.anchored \in BOOLEAN
  BY UpkeepAssumption
<1>5. d.evidence # Absent => d.evidence.anchored \in BOOLEAN
  BY UpkeepAssumption
<1>6. \/ /\ resolved.pin = Absent /\ resolved.posture = "zero" /\ pinned = "zero"
         /\ EarnsZero(d)
      \/ /\ resolved.pin = Absent /\ resolved.posture = "standard" /\ pinned # "zero"
      \/ /\ resolved.pin # Absent /\ PinRead(resolved.pin)
         /\ resolved.pin.posture = resolved.posture
         /\ (resolved.posture = "zero" => EarnsZero(d))
  <2>1. CASE EarnsZero(d) /\ pinned = "zero"
    BY <2>1 DEF PostureResolved, Inherits
  <2>2. CASE EarnsZero(d) /\ pinned # "zero"
    <3> DEFINE pin == PinFrom(d.basis, "zero", page)
    <3>1. resolved = Overrides(pin)
      BY <2>2 DEF PostureResolved
    <3>2. d.basis # Absent /\ "zero" \in Labels
      BY <2>2 DEF EarnsZero, Labels
    <3>3. PinRead(pin) /\ pin # Absent /\ pin.posture = "zero"
      BY <1>2, <1>4, <3>2, BroughtIs
    <3> HIDE DEF pin, resolved
    <3> QED BY <2>2, <3>1, <3>3 DEF Overrides
  <2>3. CASE ~EarnsZero(d) /\ pinned # "zero"
    BY <2>3 DEF PostureResolved, Inherits
  <2>4. CASE ~EarnsZero(d) /\ pinned = "zero"
    <3>1. Citable(d) # Absent
      BY <1>1, <2>4 DEF PostureResolved, NothingToCite
    <3> DEFINE e == Citable(d)
               pin == PinFrom(e, "standard", page)
    <3>2. resolved = Overrides(pin)
      BY <2>4, <3>1 DEF PostureResolved
    <3>3. e.anchored \in BOOLEAN /\ "standard" \in Labels
      BY <1>4, <1>5, <3>1 DEF Citable, Labels
    <3> HIDE DEF e
    <3>4. PinRead(pin) /\ pin # Absent /\ pin.posture = "standard"
      BY <1>2, <3>3, BroughtIs
    <3> HIDE DEF pin, resolved
    <3> QED BY <3>2, <3>4 DEF Overrides
  <2> QED BY <2>1, <2>2, <2>3, <2>4
<1> HIDE DEF pinned, resolved
<1>7. DraftSays(draft')
  <2>1. resolved.pin \in Pins \cup {Absent}
    BY <1>6 DEF PinRead
  <2> QED BY <1>1, <1>2, <1>3, <1>6, <2>1 DEF DraftSays, LaneHonest
<1> QED BY <1>1, <1>7 DEF UpkeepInv

THEOREM UpkeepInvariant == UpkeepSpec => []UpkeepInv
<1>1. UpkeepInv /\ [UpkeepNext]_upkeepVars => UpkeepInv'
  <2> SUFFICES ASSUME UpkeepInv, [UpkeepNext]_upkeepVars PROVE UpkeepInv'
    OBVIOUS
  <2>1. ASSUME NEW d \in Dossiers, Draft(d) PROVE UpkeepInv'
    BY <2>1, Drafts
  <2>2. CASE Merge
    <3>1. /\ draft # Absent /\ draft' = Absent /\ page' = page
          /\ tierFile.pins[draft.lane.provider] # Absent
          /\ DOMAIN tierFile' = {"pins", "lanes"} /\ tierFile'.pins = tierFile.pins
          /\ tierFile'.lanes = tierFile.lanes \cup {draft.lane}
      BY <2>2 DEF Merge, UpkeepInv
    <3>2. LaneHonest(draft.lane) /\ (draft.lane.pin # Absent => PinRead(draft.lane.pin))
      BY <3>1 DEF UpkeepInv, DraftSays
    <3> QED BY <3>1, <3>2 DEF UpkeepInv
  <2>3. CASE Discard
    BY <2>3 DEF Discard, UpkeepInv
  <2>4. CASE VendorsMove
    <3>1. tierFile' = tierFile /\ draft' = draft /\ page' \in Pages
      BY <2>4 DEF VendorsMove, UpkeepInv
    <3> QED BY <3>1 DEF UpkeepInv
  <2>5. ASSUME NEW p \in Providers, Repin(p) PROVE UpkeepInv'
    <3>1. PICK posture \in {"zero", "standard"}, anchored \in BOOLEAN :
            tierFile' = [tierFile EXCEPT !.pins[p] = ReadOn(page, posture, anchored)]
      BY <2>5 DEF Repin
    <3>2. page' = page /\ draft' = draft /\ page \in Pages /\ posture \in Labels
      BY <2>5 DEF Repin, UpkeepInv, Labels
    <3>3. /\ DOMAIN tierFile' = {"pins", "lanes"} /\ tierFile'.lanes = tierFile.lanes
          /\ DOMAIN tierFile'.pins = Providers
          /\ tierFile'.pins[p] = ReadOn(page, posture, anchored)
          /\ \A q \in Providers : q # p => tierFile'.pins[q] = tierFile.pins[q]
      BY <3>1 DEF UpkeepInv
    <3>4. PinRead(tierFile'.pins[p]) /\ tierFile'.pins[p] # Absent
      BY <3>2, <3>3, ReadIs
    <3>5. \A q \in Providers :
            /\ tierFile'.pins[q] # Absent => PinRead(tierFile'.pins[q])
            /\ tierFile.pins[q] # Absent => tierFile'.pins[q] # Absent
      BY <3>3, <3>4 DEF UpkeepInv
    <3>6. \A lane \in tierFile.lanes : lane.provider \in Providers
      BY DEF UpkeepInv, LaneHonest
    <3> QED BY <3>2, <3>3, <3>5, <3>6 DEF UpkeepInv
  <2>6. CASE UNCHANGED upkeepVars
    BY <2>6 DEF upkeepVars, UpkeepInv
  <2> QED BY <2>1, <2>2, <2>3, <2>4, <2>5, <2>6 DEF UpkeepNext
<1> QED BY <1>1, UpkeepStarts, PTL DEF UpkeepSpec

\* A page that answers to a pin's digest says what was read for it.
LEMMA UnmovedPage ==
    ASSUME NEW pin, PinRead(pin), NEW at, PageVerdict(pin, at) = "unchanged"
    PROVE  at.passage = pin.read.passage /\ (~pin.anchored => at.rest = pin.read.rest)
<1>1. Evidence(pin, at) # Absent /\ Evidence(pin, at) = pin.digest /\ pin.anchored \in BOOLEAN
  BY DEF PageVerdict, PinRead, Pins
<1>2. CASE pin.anchored
  <2>1. Evidence(pin, at) = <<at.passage>>
    BY <1>1, <1>2 DEF Evidence, Extract
  <2>2. pin.digest # WholePage(pin.read)
    <3>1. Len(<<at.passage>>) = 1 /\ Len(WholePage(pin.read)) = 3
      BY DEF WholePage
    <3> QED BY <1>1, <2>1, <3>1
  <2>3. pin.digest = Evidence(pin, pin.read) /\ pin.digest # Absent
    BY <1>1, <2>2 DEF PinRead
  <2>4. pin.digest = <<pin.read.passage>>
    BY <1>2, <2>3 DEF Evidence, Extract
  <2>5. <<at.passage>> = <<pin.read.passage>>
    BY <1>1, <2>1, <2>4
  <2>6. at.passage = pin.read.passage
    BY <2>5
  <2> QED BY <1>2, <2>6
<1>3. CASE ~pin.anchored
  <2>1. WholePage(at) = WholePage(pin.read)
    BY <1>1, <1>3 DEF PinRead, Evidence
  <2> QED BY <2>1 DEF WholePage
<1> QED BY <1>1, <1>2, <1>3

LEMMA UpkeepHonest == UpkeepInv => ZeroIsEarned /\ QuietIsUnmoved
<1> SUFFICES ASSUME UpkeepInv PROVE ZeroIsEarned /\ QuietIsUnmoved
  OBVIOUS
<1>1. ZeroIsEarned
  <2>1. ASSUME NEW lane \in tierFile.lanes, Posture(tierFile, lane) = "zero"
        PROVE  lane.earned \/ (lane.pin = Absent /\ lane.saw # "zero")
    BY <2>1 DEF UpkeepInv, LaneHonest, Posture
  <2>2. ASSUME draft # Absent,
               PostureOfPin(tierFile.pins[draft.lane.provider]) = draft.lane.saw
        PROVE  Posture(tierFile, draft.lane) \in {draft.says, "none"}
    <3>1. DraftSays(draft) /\ draft.lane.provider \in Providers
      BY <2>2 DEF UpkeepInv, DraftSays, LaneHonest
    <3>2. draft.lane.saw \in Labels \cup {"none"}
      BY <2>2, <3>1, LabelOf
    <3> QED BY <2>2, <3>1, <3>2 DEF DraftSays, Posture, Labels
  <2> QED BY <2>1, <2>2 DEF ZeroIsEarned
<1>2. QuietIsUnmoved
  <2> SUFFICES ASSUME RetentionGreen, NEW lane \in tierFile.lanes
               PROVE  LET pin == IF lane.pin # Absent THEN lane.pin
                                 ELSE tierFile.pins[lane.provider]
                      IN  /\ page.passage = pin.read.passage
                          /\ ~pin.anchored => page.rest = pin.read.rest
    BY DEF QuietIsUnmoved
  <2> DEFINE pin == IF lane.pin # Absent THEN lane.pin ELSE tierFile.pins[lane.provider]
  <2>1. PinRead(pin) /\ pin \in Claims(tierFile)
    BY DEF UpkeepInv, LaneHonest, Claims
  <2>2. PageVerdict(pin, page) = "unchanged"
    BY <2>1 DEF RetentionGreen
  <2> HIDE DEF pin
  <2>3. page.passage = pin.read.passage /\ (~pin.anchored => page.rest = pin.read.rest)
    BY <2>1, <2>2, UnmovedPage
  <2> QED BY <2>2, <2>3 DEF pin
<1> QED BY <1>1, <1>2

-----------------------------------------------------------------------------
(* What is published of a file is a matter of the file alone: a lane has one   *)
(* owner, the lane's own tier where a tier bears its name, and the row and the *)
(* route are both the owner's.                                                 *)

\* A lane of a file that loads is labelled one way or the other.
LEMMA LabelIs ==
    ASSUME NEW f \in Files, Loads(f), NEW t \in DOMAIN f.tiers, NEW lane \in f.tiers[t].lanes
    PROVE  PostureOf(f, t, lane) \in {"zero", "standard"}
<1>1. /\ f.tiers[t].posture \in {"zero", "standard", Unstated}
      /\ \A p \in DOMAIN f.postures : f.postures[p] \in {"zero", "standard"}
  BY FilesAssumption DEF IsFile
<1>2. PostureOf(f, t, lane) # Unstated
  BY DEF Loads, Sound
<1> QED BY <1>1, <1>2 DEF PostureOf

\* Of a tier that is served a lane has one owner, and is the only one of its id.
LEMMA OneOwner ==
    ASSUME NEW f \in Files, Loads(f),
           NEW s \in DOMAIN f.tiers, NEW a \in f.tiers[s].lanes,
           NEW t \in DOMAIN f.tiers, NEW b \in f.tiers[t].lanes, a.id = b.id
    PROVE  s = t /\ a = b
BY DEF Loads, Sound

\* A tier named like one of the lanes is the tier of that lane.
LEMMA NamedByItsOwn ==
    ASSUME NEW f \in Files, Loads(f), NEW t \in DOMAIN f.tiers, NEW lane \in f.tiers[t].lanes,
           lane.id \in DOMAIN f.tiers
    PROVE  lane.id = t
<1>1. lane.id \notin Reserved
  BY DEF Loads, Sound
<1>2. PICK own \in f.tiers[lane.id].lanes : own.id = lane.id
  BY <1>1 DEF Loads, Sound
<1> QED BY <1>2, OneOwner

LEMMA RouteIsOf ==
    ASSUME NEW f, NEW t, NEW lanes, lanes # {}
    PROVE  /\ RouteTo(f, t, lanes) # NoRoute
           /\ RouteTo(f, t, lanes).lanes = lanes
           /\ RouteTo(f, t, lanes).sells = f.tiers[t].sells
           /\ \A lane \in lanes : RouteTo(f, t, lanes).posture[lane] = PostureOf(f, t, lane)
<1>1. /\ RouteTo(f, t, lanes).lanes = lanes
      /\ RouteTo(f, t, lanes).sells = f.tiers[t].sells
      /\ \A lane \in lanes : RouteTo(f, t, lanes).posture[lane] = PostureOf(f, t, lane)
  BY DEF RouteTo
<1>2. NoRoute.lanes = {}
  BY DEF NoRoute
<1> QED BY <1>1, <1>2

\* The route of a lane's id is its owner's, which is the lane alone unless its
\* owner bears its name.
LEMMA RouteOfLane ==
    ASSUME NEW f \in Files, Loads(f), NEW t \in Served(f), NEW lane \in f.tiers[t].lanes
    PROVE  LET route == RouteOf(f, lane.id, TRUE)
           IN  /\ lane \in route.lanes /\ route.sells = f.tiers[t].sells
               /\ route.posture[lane] = PostureOf(f, t, lane)
               /\ IsFiniteSet(route.lanes)
<1> DEFINE id == lane.id
           route == RouteOf(f, id, TRUE)
<1>1. t \in DOMAIN f.tiers /\ IsFiniteSet(f.tiers[t].lanes)
  BY FilesAssumption DEF Served, IsFile
<1>2. CASE id \in Served(f)
  <2>1. id \in DOMAIN f.tiers
    BY <1>2 DEF Served
  <2>2. id = t
    BY <1>1, <2>1, NamedByItsOwn
  <2>3. Pinned(f, id) = RouteTo(f, t, f.tiers[t].lanes)
    BY <1>2, <2>2 DEF Pinned
  <2> DEFINE lanes == f.tiers[t].lanes
             to == RouteTo(f, t, lanes)
  <2>4. lanes # {}
    OBVIOUS
  <2>5. /\ to # NoRoute /\ to.lanes = lanes /\ to.sells = f.tiers[t].sells
        /\ to.posture[lane] = PostureOf(f, t, lane)
    <3> HIDE DEF lanes
    <3>1. lane \in lanes
      BY DEF lanes
    <3> QED BY <2>4, <3>1, RouteIsOf
  <2>6. route = to
    BY <2>3, <2>5 DEF RouteOf
  <2> QED BY <1>1, <2>5, <2>6
<1>3. CASE id \notin Served(f)
  <2> DEFINE owners == {s \in Served(f) : \E l \in f.tiers[s].lanes : l.id = id}
             owner == CHOOSE s \in owners : TRUE
             lanes == {l \in f.tiers[owner].lanes : l.id = id}
             to == RouteTo(f, owner, lanes)
  <2>1. t \in owners
    OBVIOUS
  <2>2. owner \in owners
    BY <2>1
  <2>3. owner = t
    <3>1. PICK l \in f.tiers[owner].lanes : l.id = id
      BY <2>2
    <3>2. owner \in DOMAIN f.tiers
      BY <2>2 DEF Served
    <3> QED BY <1>1, <3>1, <3>2, OneOwner
  <2>4. Pinned(f, id) = to
    BY <1>3, <2>1 DEF Pinned
  <2> HIDE DEF owner
  <2>5. lane \in lanes /\ lanes \subseteq f.tiers[t].lanes
    BY <2>3
  <2> HIDE DEF lanes
  <2>6. /\ to # NoRoute /\ to.lanes = lanes /\ to.sells = f.tiers[t].sells
        /\ to.posture[lane] = PostureOf(f, t, lane)
    BY <2>3, <2>5, RouteIsOf
  <2>7. IsFiniteSet(lanes)
    BY <1>1, <2>5, FS_Subset
  <2> HIDE DEF to
  <2>8. route = to
    BY <2>4, <2>6 DEF RouteOf
  <2> QED BY <2>5, <2>6, <2>7, <2>8
<1> QED BY <1>2, <1>3

\* What a row of /v1/models promises, of any file that loads.
LEMMA RowIsHonest ==
    ASSUME NEW f \in Files, Loads(f), NEW able, NEW id \in Listed(f, able) \cup Aliases(f, able)
    PROVE  LET row == IF id \in Aliases(f, able) THEN AliasRow(f, id, able)
                      ELSE LaneRow(f, id, able)
               route == RouteOf(f, id, TRUE)
               built == {lane \in route.lanes : lane.provider \in able}
           IN  /\ built # {}
               /\ row.sells = route.sells
               /\ id \in Aliases(f, able) \/ Cardinality(route.lanes) = 1 =>
                    \A lane \in built :
                        row.posture = "zero" => route.posture[lane] = "zero"
<1> DEFINE route == RouteOf(f, id, TRUE)
           built == {lane \in route.lanes : lane.provider \in able}
<1>1. CASE id \in Aliases(f, able)
  <2> DEFINE row == AliasRow(f, id, able)
             lanes == f.tiers[id].lanes
             to == RouteTo(f, id, lanes)
             reach == {PostureOf(f, id, lane) : lane \in {l \in lanes : l.provider \in able}}
  <2>1. id \in Served(f) /\ id \in DOMAIN f.tiers /\ \E lane \in lanes : lane.provider \in able
    BY <1>1 DEF Aliases, Served
  <2>2. Pinned(f, id) = to
    BY <2>1 DEF Pinned
  <2>3. row.sells = f.tiers[id].sells /\ row.posture = Weakest(reach)
    BY DEF AliasRow
  <2>4. \A lane \in lanes : PostureOf(f, id, lane) \in {"zero", "standard"}
    BY <2>1, LabelIs
  <2>5. \A lane \in lanes : lane.provider \in able => PostureOf(f, id, lane) \in reach
    OBVIOUS
  <2> HIDE DEF lanes, row, reach
  <2>6. /\ to # NoRoute /\ to.lanes = lanes /\ to.sells = f.tiers[id].sells
        /\ \A lane \in lanes : to.posture[lane] = PostureOf(f, id, lane)
    BY <2>1, RouteIsOf
  <2> HIDE DEF to
  <2>7. route = to
    BY <2>2, <2>6 DEF RouteOf
  <2> HIDE DEF route
  <2>8. row.posture = "zero" => "standard" \notin reach
    BY <2>3 DEF Weakest
  <2>9. \A lane \in built : row.posture = "zero" => route.posture[lane] = "zero"
    BY <2>4, <2>5, <2>6, <2>7, <2>8
  <2>10. built # {} /\ row.sells = route.sells
    BY <2>1, <2>3, <2>6, <2>7
  <2> QED BY <1>1, <2>9, <2>10 DEF route, row
<1>2. CASE id \notin Aliases(f, able)
  <2> DEFINE Owns(s) == \E l \in f.tiers[s].lanes : l.id = id
             t == CHOOSE s \in Served(f) : Owns(s)
             lane == CHOOSE l \in f.tiers[t].lanes : l.id = id
             row == LaneRow(f, id, able)
  <2>1. \E l \in LanesOf(f) : /\ l.provider \in able /\ l.id = id
                              /\ \E s \in Served(f) : l \in f.tiers[s].lanes
    BY <1>2 DEF Listed
  <2>0. PICK l \in LanesOf(f) : /\ l.provider \in able /\ l.id = id
                                /\ \E s \in Served(f) : l \in f.tiers[s].lanes
    BY <2>1
  <2>2. PICK s \in Served(f) : l \in f.tiers[s].lanes
    BY <2>0
  <2>3. t \in Served(f) /\ Owns(t)
    BY <2>0, <2>2
  <2>4. lane \in f.tiers[t].lanes /\ lane.id = id
    BY <2>3
  <2>5. row.sells = f.tiers[t].sells /\ row.posture = PostureOf(f, t, lane)
    BY DEF LaneRow
  <2> HIDE DEF t, lane, row
  <2>6. t = s /\ lane = l
    BY <2>0, <2>2, <2>3, <2>4, OneOwner DEF Served
  <2>7. /\ lane \in route.lanes /\ route.sells = f.tiers[t].sells
        /\ route.posture[lane] = PostureOf(f, t, lane) /\ IsFiniteSet(route.lanes)
    BY <2>3, <2>4, RouteOfLane
  <2> HIDE DEF route
  <2>8. lane \in built
    BY <2>0, <2>6, <2>7
  <2>9. Cardinality(route.lanes) = 1 => route.lanes = {lane}
    BY <2>7, FS_Singleton
  <2>10. Cardinality(route.lanes) = 1 =>
            \A other \in built : row.posture = "zero" => route.posture[other] = "zero"
    BY <2>5, <2>7, <2>9
  <2> QED BY <1>2, <2>5, <2>7, <2>8, <2>10 DEF route, row
<1> QED BY <1>1, <1>2

\* What /v1/models says of an id is what a request for it gets, a zero it says was
\* earned by its lane, and nothing the retention report is quiet about has moved:
\* whatever the file, the vendors' pages and the drafts merged meanwhile
\* (model_listing, resolve_posture, retention_drift).
THEOREM WhatIsPublishedIsTrue == CatalogSpec /\ UpkeepSpec => []PublishedHonestly
<1>1. PricingInv => ListingHonest
  BY RowIsHonest DEF PricingInv, ListingHonest
<1>2. PricingInv /\ UpkeepInv => PublishedHonestly
  BY <1>1, UpkeepHonest DEF PublishedHonestly
<1> QED BY <1>2, PricesHold, UpkeepInvariant, PTL

-----------------------------------------------------------------------------
(* The reports.  A lane of the file is a lane of the loader, so that the      *)
(* thresholds an upstream publishes, found to be those of its schedule one    *)
(* for one and in order, reach the same band at every prompt.                 *)

LaneFiled(lane) == lane.model \in DOMAIN Canonical /\ IsSchedule(lane.basis)

FiledInv ==
    /\ source \in Sources
    /\ \A lane \in tierFile.lanes : LaneFiled(lane)
    /\ draft # Absent => LaneFiled(draft.lane)

LEMMA FiledStarts == UpkeepInit => FiledInv
<1> SUFFICES ASSUME UpkeepInit PROVE FiledInv
  OBVIOUS
<1>1. draft = Absent /\ source \in Sources /\ tierFile.lanes \subseteq Started
  BY DEF UpkeepInit
<1> QED BY <1>1, UpkeepAssumption DEF FiledInv, LaneFiled

LEMMA FiledKept == UpkeepInv /\ FiledInv /\ [UpkeepNext]_upkeepVars => FiledInv'
<1> SUFFICES ASSUME UpkeepInv, FiledInv, [UpkeepNext]_upkeepVars PROVE FiledInv'
  OBVIOUS
<1>1. ASSUME NEW d \in Dossiers, Draft(d) PROVE FiledInv'
  <2>1. /\ tierFile' = tierFile /\ source' = source
        /\ draft'.lane.model = d.model /\ draft'.lane.basis = ScheduleOf(d.prices)
    BY <1>1 DEF Draft
  <2>2. IsSchedule(ScheduleOf(d.prices)) /\ d.model \in DOMAIN Canonical
    BY <1>1, UpkeepAssumption DEF Draft, Draftable, FragmentLoads
  <2>3. LaneFiled(draft'.lane)
    BY <2>1, <2>2 DEF LaneFiled
  <2> QED BY <2>1, <2>3 DEF FiledInv
<1>2. CASE Merge
  <2>1. /\ draft # Absent /\ draft' = Absent /\ source' = source
        /\ tierFile'.lanes = tierFile.lanes \cup {draft.lane}
    BY <1>2 DEF Merge, UpkeepInv
  <2> QED BY <2>1 DEF FiledInv
<1>3. CASE Discard
  BY <1>3 DEF Discard, FiledInv
<1>4. CASE VendorsMove
  BY <1>4 DEF VendorsMove, FiledInv
<1>5. ASSUME NEW p \in Providers, Repin(p) PROVE FiledInv'
  <2>1. tierFile'.lanes = tierFile.lanes /\ draft' = draft /\ source' = source
    BY <1>5 DEF Repin, UpkeepInv
  <2> QED BY <2>1 DEF FiledInv
<1>6. CASE UNCHANGED upkeepVars
  BY <1>6 DEF upkeepVars, FiledInv
<1> QED BY <1>1, <1>2, <1>3, <1>4, <1>5, <1>6 DEF UpkeepNext

\* No tier of those reached starts later.
LastOf(tiers, reached, i) == \A j \in reached : tiers[j].size <= tiers[i].size
LastIn(tiers, reached) == CHOOSE i \in reached : LastOf(tiers, reached, i)

\* Where the thresholds are those of the schedule, in order, the tier a prompt
\* reaches last is the band it is in.
LEMMA SameBandAt ==
    ASSUME NEW basis, IsSchedule(basis), NEW tiers, ConditionalAgrees(basis, tiers),
           NEW n \in Nat, NEW reached, reached = {i \in DOMAIN tiers : tiers[i].size <= n}
    PROVE  /\ reached = {} => BandAt(basis, n) = 0
           /\ reached # {} => LastIn(tiers, reached) \in reached
           /\ reached # {} => LastOf(tiers, reached, LastIn(tiers, reached))
           /\ \A i \in reached : LastOf(tiers, reached, i) => tiers[i].size = BandAt(basis, n)
<1> DEFINE band == BandAt(basis, n)
<1>1. /\ band \in DOMAIN basis /\ band <= n
      /\ \A t \in DOMAIN basis : t <= n => t <= band
  BY BandIsOfSchedule
<1>2. /\ \A i \in DOMAIN tiers : tiers[i].size \in DOMAIN basis \ {0}
      /\ \A t \in DOMAIN basis \ {0} : \E i \in DOMAIN tiers : tiers[i].size = t
  BY DEF ConditionalAgrees, BandsOf
<1>3. DOMAIN basis \subseteq Nat
  BY DEF IsSchedule
<1> HIDE DEF band
<1>4. ASSUME reached = {} PROVE band = 0
  BY <1>1, <1>2, <1>4
<1>5. ASSUME reached # {}
      PROVE  \E i \in reached : LastOf(tiers, reached, i)
  <2>1. PICK k \in reached : TRUE
    BY <1>5
  <2>2. tiers[k].size <= band /\ tiers[k].size \in Nat /\ tiers[k].size # 0
    BY <1>1, <1>2, <1>3
  <2>3. band # 0
    BY <2>2
  <2>4. PICK i \in DOMAIN tiers : tiers[i].size = band
    BY <1>1, <1>2, <2>3
  <2> QED BY <1>1, <1>2, <2>4 DEF LastOf
<1>6. ASSUME reached # {}, NEW i \in reached, LastOf(tiers, reached, i)
      PROVE  tiers[i].size = band
  <2>1. tiers[i].size <= band /\ tiers[i].size \in Nat /\ tiers[i].size # 0
    BY <1>1, <1>2, <1>3
  <2>2. PICK j \in DOMAIN tiers : tiers[j].size = band
    BY <1>1, <1>2, <2>1
  <2>3. band <= tiers[i].size /\ band \in Nat
    BY <1>1, <1>3, <1>6, <2>2 DEF LastOf
  <2> QED BY <2>1, <2>3
<1>7. ASSUME NEW i \in reached PROVE LastOf(tiers, reached, i) => tiers[i].size = band
  BY <1>6
<1>8. ASSUME reached # {}
      PROVE  LastIn(tiers, reached) \in reached /\ LastOf(tiers, reached, LastIn(tiers, reached))
  BY <1>5, <1>8 DEF LastIn
<1> QED BY <1>4, <1>7, <1>8 DEF band

\* What upstream states of a rate at a prompt is what the lane recorded there.
LEMMA OkIsTrue ==
    ASSUME NEW basis, IsSchedule(basis), NEW entry,
           ConditionalAgrees(basis, entry.tiers),
           RatesAgree(basis[0], entry.base), NEW n \in Nat, NEW d \in Dimensions,
           UpstreamAt(entry, n)[d] # Absent
    PROVE  \/ At(basis, n)[d] = UpstreamAt(entry, n)[d]
           \/ d = "written" /\ At(basis, n)[d] = Absent
<1> DEFINE tiers == entry.tiers
           reached == {i \in DOMAIN tiers : tiers[i].size <= n}
<1>1. reached = {i \in DOMAIN tiers : tiers[i].size <= n}
  OBVIOUS
<1>2. ConditionalAgrees(basis, tiers)
  OBVIOUS
<1> HIDE DEF tiers, reached
<1>3. CASE reached = {}
  <2>1. BandAt(basis, n) = 0
    BY <1>1, <1>3, <1>2, SameBandAt
  <2>2. UpstreamAt(entry, n) = entry.base
    BY <1>3 DEF UpstreamAt, reached, tiers
  <2> QED BY <2>1, <2>2 DEF RatesAgree, At
<1>4. CASE reached # {}
  <2> DEFINE last == LastIn(tiers, reached)
  <2>1. last \in reached
    BY <1>1, <1>4, <1>2, SameBandAt
  <2>2. LastOf(tiers, reached, last)
    BY <1>1, <1>4, <1>2, SameBandAt
  <2>3. ASSUME NEW i \in reached, LastOf(tiers, reached, i) PROVE tiers[i].size = BandAt(basis, n)
    BY <1>1, <1>2, <2>3, SameBandAt
  <2>4. UpstreamAt(entry, n) = tiers[last].rates
    BY <1>4 DEF UpstreamAt, reached, tiers, LastOf, LastIn
  <2> HIDE DEF last
  <2>5. tiers[last].size = BandAt(basis, n)
    BY <2>1, <2>2, <2>3
  <2>6. RatesAgree(basis[tiers[last].size], tiers[last].rates)
    BY <1>1, <1>2, <2>1 DEF ConditionalAgrees
  <2> QED BY <2>4, <2>5, <2>6 DEF RatesAgree, At
<1> QED BY <1>3, <1>4

\* Thresholds that agree with a schedule's are each stated once.
LEMMA EachBandOnce ==
    ASSUME NEW basis, IsSchedule(basis), NEW tiers,
           DOMAIN tiers \subseteq Int, ConditionalAgrees(basis, tiers)
    PROVE  PrimaryBands(tiers) = [t \in BandsOf(basis) |-> 1]
<1> DEFINE context == {i \in DOMAIN tiers : tiers[i].kind = "context"}
           sizes == [i \in context |-> tiers[i].size]
<1>1. context = DOMAIN tiers
  BY DEF ConditionalAgrees
<1>2. {sizes[i] : i \in DOMAIN sizes} = BandsOf(basis)
  BY <1>1 DEF ConditionalAgrees
<1>3. ASSUME NEW t \in BandsOf(basis)
      PROVE  Cardinality({i \in DOMAIN sizes : sizes[i] = t}) = 1
  <2>1. PICK k \in DOMAIN tiers : tiers[k].size = t
    BY <1>3 DEF ConditionalAgrees
  <2>2. ASSUME NEW i \in DOMAIN tiers, tiers[i].size = t PROVE i = k
    <3>1. ~(i < k) /\ ~(k < i)
      <4>1. t \in Nat
        BY DEF IsSchedule, BandsOf
      <4>2. ~(t < t)
        BY <4>1
      <4> QED BY <2>1, <2>2, <4>2 DEF ConditionalAgrees
    <3>2. i \in Int /\ k \in Int
      BY <2>1, <2>2
    <3> QED BY <3>1, <3>2
  <2>3. {i \in DOMAIN sizes : sizes[i] = t} = {k}
    BY <1>1, <2>1, <2>2
  <2> QED BY <2>3, FS_Singleton
<1> HIDE DEF sizes
<1>4. Tally(sizes) = [t \in BandsOf(basis) |-> 1]
  BY <1>2, <1>3 DEF Tally
<1> QED BY <1>4 DEF PrimaryBands, sizes

\* A green report is true of every lane it could compare.
LEMMA GreenHolds == FiledInv => GreenIsTrue
<1> SUFFICES ASSUME FiledInv, CatalogGreen, NEW lane \in tierFile.lanes,
                    Verdict(lane, source) = "ok"
    PROVE LET listing == Listing(source, FiledKey(lane.provider))
              entry == listing[MatchedAs(listing, lane.model)]
          IN  /\ \A prompt \in Prompts, d \in Dimensions :
                   LET asked == UpstreamAt(entry, prompt)[d]
                       recorded == At(lane.basis, prompt)[d]
                   IN  asked # Absent =>
                         recorded = asked \/ (d = "written" /\ recorded = Absent)
              /\ lane.takes # {} /\ entry.takes # {} => lane.takes \subseteq entry.takes
              /\ Corroborated(lane, source, second) = "agree" =>
                   SecondBands(second[lane.model]) = [t \in BandsOf(lane.basis) |-> 1]
  BY DEF GreenIsTrue
<1> DEFINE listing == Listing(source, FiledKey(lane.provider))
           name == MatchedAs(listing, lane.model)
           entry == listing[name]
<1>1. /\ name # Absent /\ RatesAgree(lane.basis[0], entry.base)
      /\ ConditionalAgrees(lane.basis, entry.tiers)
  BY DEF Verdict
<1>2. IsSchedule(lane.basis) /\ ~Contradicted(lane, source)
  BY DEF FiledInv, LaneFiled, CatalogGreen, Drifted
<1>3. lane.takes # {} /\ entry.takes # {} => lane.takes \subseteq entry.takes
  BY <1>1, <1>2 DEF Contradicted
<1>4. ASSUME Corroborated(lane, source, second) = "agree"
      PROVE  SecondBands(second[lane.model]) = PrimaryBands(entry.tiers)
  BY <1>1, <1>4 DEF Corroborated
<1>5. DOMAIN entry.tiers \subseteq Int
  <2>1. FiledKey(lane.provider) \in DOMAIN source /\ name \in DOMAIN source[FiledKey(lane.provider)]
    BY <1>1 DEF MatchedAs, Listing
  <2>2. entry = source[FiledKey(lane.provider)][name]
    BY <2>1 DEF Listing
  <2>3. DOMAIN entry.tiers = 1..Len(entry.tiers)
    BY <2>1, <2>2, UpkeepAssumption DEF FiledInv
  <2> QED BY <2>3
<1> HIDE DEF entry, name, listing
<1>6. Corroborated(lane, source, second) = "agree" =>
        SecondBands(second[lane.model]) = [t \in BandsOf(lane.basis) |-> 1]
  BY <1>1, <1>2, <1>4, <1>5, EachBandOnce
<1>7. ASSUME NEW prompt \in Prompts, NEW d \in Dimensions, UpstreamAt(entry, prompt)[d] # Absent
      PROVE  \/ At(lane.basis, prompt)[d] = UpstreamAt(entry, prompt)[d]
             \/ d = "written" /\ At(lane.basis, prompt)[d] = Absent
  BY <1>1, <1>2, <1>7, UpkeepAssumption, OkIsTrue
<1> QED BY <1>3, <1>6, <1>7 DEF entry, name, listing

\* What a lane's listing is called is another spelling of the lane's own model.
LEMMA ReportsDoAgree == FiledInv => ReportsAgree
<1> SUFFICES ASSUME FiledInv, NEW lane \in tierFile.lanes,
                    NEW name, name = MatchedAs(Listing(source, FiledKey(lane.provider)), lane.model),
                    name # Absent
             PROVE  <<lane.provider, Canonical[name]>> \notin Found(tierFile.lanes, source)
  BY DEF ReportsAgree
<1>1. name \in {lane.model, Undated[lane.model], Unpublished[lane.model]}
  BY DEF MatchedAs
<1>2. Canonical[name] = Canonical[lane.model]
  BY <1>1, SpellingsAssumption DEF FiledInv, LaneFiled
<1>3. Canonical[lane.model] \in CarriedBy(tierFile.lanes, lane.provider)
  BY DEF CarriedBy
<1>4. ASSUME NEW c \in Found(tierFile.lanes, source)
      PROVE  c[2] \notin CarriedBy(tierFile.lanes, c[1])
  BY <1>4 DEF Found
<1> QED BY <1>2, <1>3, <1>4

\* What the upkeep reports do not complain of is so, at every prompt size, and they
\* do not contradict each other: whatever the two catalogs say and when they change,
\* and whatever lanes were drafted and merged meanwhile (reconcile_with,
\* corroborate, discover).
THEOREM ReportsStayTrue == UpkeepSpec => []ReportsTrue
<1>1. FiledInv => ReportsTrue
  BY GreenHolds, ReportsDoAgree DEF ReportsTrue
<1>2. UpkeepSpec => []FiledInv
  BY FiledStarts, FiledKept, UpkeepInvariant, PTL DEF UpkeepSpec
<1> QED BY <1>1, <1>2, PTL

-----------------------------------------------------------------------------
(* What is known of a call.                                                *)

\* Making a report add up changes neither its split nor its cost, and doing it
\* again changes nothing.
LEMMA ReportedSplit ==
    ASSUME NEW u, IsUsage(u)
    PROVE  /\ IsUsage(Reported(u)) /\ Reported(Reported(u)) = Reported(u)
           /\ Reported(u).prompt = u.prompt /\ Reported(u).output = u.output
           /\ CachedOf(Reported(u)) = CachedOf(u) /\ WrittenOf(Reported(u)) = WrittenOf(u)
           /\ FreshOf(Reported(u)) = FreshOf(u)
<1>1. /\ CachedOf(u) \in Nat /\ CachedOf(u) <= u.prompt
      /\ WrittenOf(u) \in Nat /\ WrittenOf(u) <= u.prompt - CachedOf(u)
  BY DEF IsUsage, CachedOf, WrittenOf, Smaller
<1>2. /\ Reported(u).prompt = u.prompt /\ Reported(u).output = u.output
      /\ Reported(u).cached = CachedOf(u) /\ Reported(u).written = WrittenOf(u)
  BY DEF Reported
<1>3. CachedOf(Reported(u)) = CachedOf(u)
  BY <1>1, <1>2 DEF CachedOf, Smaller
<1>4. WrittenOf(Reported(u)) = WrittenOf(u)
  BY <1>1, <1>2, <1>3 DEF WrittenOf, Smaller
<1>5. FreshOf(Reported(u)) = FreshOf(u)
  BY <1>2, <1>3, <1>4 DEF FreshOf
<1>6. IsUsage(Reported(u))
  BY <1>1, <1>2 DEF IsUsage
<1>7. Reported(Reported(u)) = Reported(u)
  BY <1>2, <1>3, <1>4 DEF Reported
<1> QED BY <1>2, <1>3, <1>4, <1>5, <1>6, <1>7

LEMMA ReportedCost ==
    ASSUME NEW u, IsUsage(u), NEW table
    PROVE  Cost(table, Reported(u)) = Cost(table, u)
  BY ReportedSplit DEF Cost

\* What a usage costs is a natural, and no less of a usage that says more was put out.
LEMMA CostTyped ==
    ASSUME NEW table \in Tables, NEW u, IsUsage(u)
    PROVE  Cost(table, u) \in Nat
<1>1. /\ FreshOf(u) \in Nat /\ CachedOf(u) \in Nat /\ WrittenOf(u) \in Nat
      /\ u.output \in Nat
  BY PromptSplits
<1>2. \A d \in Dimensions : Effective(table, d) \in Nat
  BY EffectiveRate
<1>3. \A d \in Required : Effective(table, d) = table[d]
  BY DEF Effective, Tables, Required
<1>4. /\ table["input"] \in Nat /\ table["output"] \in Nat
      /\ Effective(table, "cached") \in Nat /\ Effective(table, "written") \in Nat
  BY <1>2, <1>3 DEF Dimensions, Required, Optional
<1>5. \A a, b \in Nat : a * b \in Nat
  OBVIOUS
<1>6. /\ FreshOf(u) * table["input"] \in Nat
      /\ CachedOf(u) * Effective(table, "cached") \in Nat
      /\ WrittenOf(u) * Effective(table, "written") \in Nat
      /\ u.output * table["output"] \in Nat
  BY <1>1, <1>4, <1>5
<1> QED BY <1>6 DEF Cost

\* A usage cut short, and one of which the output alone is known.
LEMMA CostOfPart ==
    ASSUME NEW table \in Tables, NEW u, IsUsage(u), NEW n \in Nat, n <= u.output,
           NEW p, IsUsage(p), p.output = n,
           \/ p.prompt = u.prompt /\ p.cached = u.cached /\ p.written = u.written
           \/ p.prompt = 0
    PROVE  Cost(table, p) <= Cost(table, u)
<1>1. /\ FreshOf(u) \in Nat /\ CachedOf(u) \in Nat /\ WrittenOf(u) \in Nat
      /\ u.output \in Nat
  BY PromptSplits
<1>2. \A d \in Dimensions : Effective(table, d) \in Nat
  BY EffectiveRate
<1>3. \A d \in Required : Effective(table, d) = table[d]
  BY DEF Effective, Tables, Required
<1>4. /\ table["input"] \in Nat /\ table["output"] \in Nat
      /\ Effective(table, "cached") \in Nat /\ Effective(table, "written") \in Nat
  BY <1>2, <1>3 DEF Dimensions, Required, Optional
<1>5. \A a, b \in Nat : a * b \in Nat
  OBVIOUS
<1>6. /\ FreshOf(u) * table["input"] \in Nat
      /\ CachedOf(u) * Effective(table, "cached") \in Nat
      /\ WrittenOf(u) * Effective(table, "written") \in Nat
      /\ u.output * table["output"] \in Nat /\ n * table["output"] \in Nat
  BY <1>1, <1>4, <1>5
<1>7. n * table["output"] <= u.output * table["output"]
  BY <1>1, <1>4, TimesGrows
<1>8. CASE p.prompt = u.prompt /\ p.cached = u.cached /\ p.written = u.written
  <2>1. CachedOf(p) = CachedOf(u)
    BY <1>8 DEF CachedOf
  <2>2. WrittenOf(p) = WrittenOf(u)
    BY <1>8, <2>1 DEF WrittenOf
  <2>3. FreshOf(p) = FreshOf(u)
    BY <1>8, <2>1, <2>2 DEF FreshOf
  <2> QED BY <1>6, <1>7, <2>1, <2>2, <2>3 DEF Cost
<1>9. CASE p.prompt = 0
  <2>1. FreshOf(p) = 0 /\ CachedOf(p) = 0 /\ WrittenOf(p) = 0
    BY <1>9, PromptSplits DEF IsUsage, FreshOf, CachedOf, WrittenOf, Smaller
  <2>2. Cost(table, p) = n * table["output"]
    BY <1>4, <1>6, <2>1 DEF Cost
  <2> QED BY <1>6, <1>7, <2>2 DEF Cost
<1> QED BY <1>8, <1>9

-----------------------------------------------------------------------------
(* What is recorded of a position.                                         *)

Spend == [prompt : Nat, output : Nat, cached : Nat, written : Nat]
Figure == Nat \cup {Absent}

CallOf == [rung : 1..Len(Route), dispatched : BOOLEAN, used : Spend,
           told : {<<>>} \cup {<<u>> : u \in Spend}]
RecordOf == [served : BOOLEAN, estimated : BOOLEAN, cost : Figure,
             tokens : [input : Figure, output : Figure, cached : Figure, written : Figure]]

\* A cost that is known is no more than what the call really drew.
WithinDrawn(c, cost) ==
    /\ CostOf(c, Reported(c.used)) \in Nat
    /\ cost # Absent => cost \in Nat /\ cost <= CostOf(c, Reported(c.used))

\* A call that reported is priced by its report, and one that did not says that
\* something is missing.
Faithful(c, a) ==
    /\ WithinDrawn(c, a.cost)
    /\ c.told = <<>> => ~IsComplete(a.tokens)
    /\ c.told # <<>> =>
         /\ c.told[1] \in Spend /\ c.told[1].prompt > 0
         /\ Reported(c.told[1]) = c.told[1]
         /\ a.cost = CostOf(c, c.told[1]) /\ a.cost \in Nat

Recorded(c, a) == c \in CallOf /\ a \in RecordOf /\ Faithful(c, a)

LEMMA SpendIsUsage == \A u \in Spend : IsUsage(u)
  BY DEF Spend, IsUsage

LEMMA DrewTyped ==
    ASSUME AttemptsAssumption, NEW c, c.rung \in 1..Len(Route), c.used \in Spend
    PROVE  /\ CostOf(c, Reported(c.used)) \in Nat
           /\ CostOf(c, Reported(c.used)) = Cost(At(Route[c.rung], c.used.prompt), c.used)
           /\ IsSchedule(Route[c.rung]) /\ At(Route[c.rung], c.used.prompt) \in Tables
<1>1. IsSchedule(Route[c.rung]) /\ IsUsage(c.used) /\ c.used.prompt \in Nat
  BY SpendIsUsage DEF AttemptsAssumption, IsUsage
<1>2. At(Route[c.rung], c.used.prompt) \in Tables
  BY <1>1, AtIsTable
<1>3. Cost(At(Route[c.rung], c.used.prompt), c.used) \in Nat
  BY <1>1, <1>2, CostTyped
<1>4. CostOf(c, Reported(c.used)) = Cost(At(Route[c.rung], c.used.prompt), c.used)
  BY <1>1, ReportedSplit, ReportedCost DEF CostOf
<1> QED BY <1>1, <1>2, <1>3, <1>4

\* Of a call that said nothing, nothing is known.
LEMMA SilentRecorded ==
    ASSUME AttemptsAssumption, rung \in 1..Len(Route), NEW used \in Spend,
           NEW dispatched \in BOOLEAN, NEW served \in BOOLEAN
    PROVE  Recorded(Position(dispatched, used, <<>>), Attempt(served, Unknown, FALSE))
<1> DEFINE c == Position(dispatched, used, <<>>)
           a == Attempt(served, Unknown, FALSE)
<1>1. /\ c.rung = rung /\ c.used = used /\ c.told = <<>> /\ c \in CallOf
  BY DEF Position, CallOf
<1>2. a.cost = Absent /\ a.tokens = Unknown /\ a \in RecordOf
  BY DEF Attempt, CostBasis, RecordOf, Figure, Unknown, Figures
<1>3. ~IsComplete(a.tokens)
  <2>1. "input" \in Dimensions /\ Unknown["input"] = Absent
    BY DEF Dimensions, Required, Unknown, Figures
  <2> QED BY <1>2, <2>1 DEF IsComplete
<1>4. CostOf(c, Reported(c.used)) \in Nat
  <2> HIDE DEF c
  <2> QED BY <1>1, DrewTyped
<1> HIDE DEF c, a
<1>5. Recorded(c, a)
  BY <1>1, <1>2, <1>3, <1>4 DEF Recorded, Faithful, WithinDrawn
<1> QED BY <1>5 DEF c, a

\* Of a call that was counted, the output is known to be no less.
LEMMA CountedRecorded ==
    ASSUME AttemptsAssumption, rung \in 1..Len(Route), NEW used \in Spend,
           NEW n \in Nat, n <= used.output, n > 0,
           NEW served \in BOOLEAN, NEW estimated \in BOOLEAN
    PROVE  Recorded(Position(TRUE, used, <<>>), Attempt(served, OutputFloor(n), estimated))
<1> DEFINE c == Position(TRUE, used, <<>>)
           a == Attempt(served, OutputFloor(n), estimated)
           s == Route[rung]
           p == [prompt |-> 0, output |-> n, cached |-> 0, written |-> 0]
<1>1. /\ c.rung = rung /\ c.used = used /\ c.told = <<>> /\ c \in CallOf
  BY DEF Position, CallOf
<1>2. /\ CostOf(c, Reported(used)) \in Nat
      /\ CostOf(c, Reported(used)) = Cost(At(s, used.prompt), used)
      /\ IsSchedule(s) /\ At(s, used.prompt) \in Tables
  <2> HIDE DEF c
  <2> QED BY <1>1, DrewTyped
<1>3. /\ OutputFloor(n).input = Absent /\ OutputFloor(n).output = n
      /\ OutputFloor(n).cached = Absent /\ OutputFloor(n).written = Absent
      /\ OutputFloor(n) \in [input : Figure, output : Figure, cached : Figure, written : Figure]
  BY DEF OutputFloor, Figures, Figure
<1>4. n # Absent
  BY PricingAssumption
<1>5. IsUsage(p) /\ Priceable(OutputFloor(n)) = Reported(p)
  BY <1>3, <1>4 DEF Priceable, Known, IsUsage
<1>6. /\ a.tokens = OutputFloor(n) /\ a.served = served /\ a.estimated = estimated
      /\ a.cost = CostBasis(s, OutputFloor(n))
  BY DEF Attempt
<1>7. a.cost = Absent \/ (a.cost \in Nat /\ a.cost <= CostOf(c, Reported(used)))
  <2>1. CASE DOMAIN s # {0}
    BY <1>3, <1>6, <2>1 DEF CostBasis
  <2>2. CASE DOMAIN s = {0}
    <3>1. OutputFloor(n) # Unknown
      BY <1>3, <1>4 DEF Unknown, Figures
    <3>2. At(s, 0) = At(s, used.prompt)
      <4>1. BandAt(s, 0) \in DOMAIN s /\ BandAt(s, used.prompt) \in DOMAIN s
        BY <1>2, BandIsOfSchedule DEF Spend
      <4> QED BY <2>2, <4>1 DEF At
    <3>3. Reported(p).prompt = 0
      BY <1>5, ReportedSplit
    <3>4. a.cost = Cost(At(s, 0), Reported(p))
      BY <1>5, <1>6, <2>2, <3>1, <3>3 DEF CostBasis
    <3>5. a.cost = Cost(At(s, used.prompt), p)
      BY <1>5, <3>2, <3>4, ReportedCost
    <3>6. IsUsage(used) /\ p.output = n /\ p.prompt = 0
      BY SpendIsUsage
    <3>7. Cost(At(s, used.prompt), p) <= Cost(At(s, used.prompt), used)
      <4> HIDE DEF p, s
      <4> QED BY <1>2, <1>5, <3>6, CostOfPart
    <3>8. Cost(At(s, used.prompt), p) \in Nat
      <4> HIDE DEF p, s
      <4> QED BY <1>2, <1>5, CostTyped
    <3> QED BY <1>2, <3>5, <3>7, <3>8
  <2> QED BY <2>1, <2>2
<1>8. ~IsComplete(a.tokens)
  <2>1. "input" \in Dimensions /\ OutputFloor(n)["input"] = Absent
    BY <1>3 DEF Dimensions, Required
  <2> QED BY <1>6, <2>1 DEF IsComplete
<1>9. a \in RecordOf
  <2>1. a.cost \in Figure
    BY <1>7 DEF Figure
  <2> QED BY <1>3, <1>6, <2>1 DEF RecordOf, Attempt
<1> HIDE DEF c, a
<1>10. Recorded(c, a)
  BY <1>1, <1>7, <1>8, <1>9, <1>2 DEF Recorded, Faithful, WithinDrawn
<1> QED BY <1>10 DEF c, a

\* A call that reported is priced by what it said.
LEMMA ToldRecorded ==
    ASSUME AttemptsAssumption, rung \in 1..Len(Route), NEW used \in Spend, used.prompt > 0,
           NEW n \in Nat, n <= used.output, NEW u,
           u = Reported([used EXCEPT !.output = n]), NEW served \in BOOLEAN
    PROVE  /\ Recorded(Position(TRUE, used, <<u>>), Attempt(served, Measured(u), FALSE))
           /\ u \in Spend
<1> DEFINE c == Position(TRUE, used, <<u>>)
           a == Attempt(served, Measured(u), FALSE)
           s == Route[rung]
           p == [used EXCEPT !.output = n]
<1>1. /\ p \in Spend /\ p.prompt = used.prompt /\ p.output = n
      /\ p.cached = used.cached /\ p.written = used.written
  BY DEF Spend
<1>2. IsUsage(p) /\ IsUsage(used)
  BY <1>1, SpendIsUsage
<1>3. /\ u = Reported(p) /\ IsUsage(u) /\ Reported(u) = u /\ u.prompt = used.prompt
  <2> HIDE DEF p
  <2> QED BY <1>1, <1>2, ReportedSplit DEF p
<1>4. u \in Spend /\ u.prompt > 0
  <2>1. u = [prompt |-> u.prompt, output |-> u.output, cached |-> u.cached,
             written |-> u.written]
    BY <1>3 DEF Reported
  <2> QED BY <1>3, <2>1 DEF Spend, IsUsage
<1>5. /\ c.rung = rung /\ c.used = used /\ c.told = <<u>> /\ c \in CallOf
  BY <1>4 DEF Position, CallOf
<1>6. /\ CostOf(c, Reported(used)) \in Nat
      /\ CostOf(c, Reported(used)) = Cost(At(s, used.prompt), used)
      /\ IsSchedule(s) /\ At(s, used.prompt) \in Tables
  <2> HIDE DEF c
  <2> QED BY <1>5, DrewTyped
<1>7. /\ Measured(u).input = u.prompt /\ Measured(u).output = u.output
      /\ Measured(u).cached = u.cached /\ Measured(u).written = u.written
      /\ Measured(u) \in [input : Figure, output : Figure, cached : Figure, written : Figure]
  BY <1>4 DEF Measured, Figures, Figure, Spend
<1>8. \A x \in Nat : x # Absent
  BY PricingAssumption
<1>9. Priceable(Measured(u)) = u
  <2>1. \A x \in Nat : Known(x) = x
    BY <1>8 DEF Known
  <2>2. Priceable(Measured(u)) =
          Reported([prompt |-> u.prompt, output |-> u.output, cached |-> u.cached,
                    written |-> u.written])
    BY <1>3, <1>7, <2>1 DEF Priceable, IsUsage
  <2>3. u = [prompt |-> u.prompt, output |-> u.output, cached |-> u.cached,
             written |-> u.written]
    BY <1>4 DEF Spend
  <2> QED BY <1>3, <2>2, <2>3
<1>10. /\ a.tokens = Measured(u) /\ a.served = served /\ a.estimated = FALSE
       /\ a.cost = CostBasis(s, Measured(u))
  BY DEF Attempt
<1>11. a.cost = Cost(At(s, used.prompt), u)
  <2>1. Measured(u).input # Absent
    BY <1>3, <1>7, <1>8 DEF IsUsage
  <2>2. Measured(u) # Unknown
    BY <2>1 DEF Unknown, Figures
  <2> QED BY <1>3, <1>9, <1>10, <2>1, <2>2 DEF CostBasis
<1>12. a.cost \in Nat /\ a.cost <= CostOf(c, Reported(used))
  <2> HIDE DEF p, s, a, c
  <2>1. Cost(At(s, used.prompt), u) = Cost(At(s, used.prompt), p)
    BY <1>2, <1>3, ReportedCost
  <2>2. Cost(At(s, used.prompt), p) <= Cost(At(s, used.prompt), used)
    BY <1>1, <1>2, <1>6, CostOfPart
  <2>3. Cost(At(s, used.prompt), p) \in Nat
    BY <1>2, <1>6, CostTyped
  <2> QED BY <1>6, <1>11, <2>1, <2>2, <2>3
<1>13. a \in RecordOf
  <2>1. a.cost \in Figure
    BY <1>12 DEF Figure
  <2> QED BY <1>7, <1>10, <2>1 DEF RecordOf, Attempt
<1>14. a.cost = CostOf(c, u)
  BY <1>3, <1>5, <1>11 DEF CostOf
<1> HIDE DEF c, a, p, s
<1>15. c.told # <<>> /\ c.told[1] = u
  <2>1. <<u>> # <<>> /\ <<u>>[1] = u
    OBVIOUS
  <2> QED BY <1>5, <2>1
<1>16. WithinDrawn(c, a.cost)
  BY <1>5, <1>6, <1>12 DEF WithinDrawn
<1>17. Faithful(c, a)
  BY <1>3, <1>4, <1>12, <1>14, <1>15, <1>16 DEF Faithful
<1>18. Recorded(c, a)
  BY <1>5, <1>13, <1>17 DEF Recorded
<1> QED BY <1>4, <1>18 DEF c, a

-----------------------------------------------------------------------------
(* The walk's ledger.                                                      *)

Positions ==
    /\ calls \in Seq(CallOf) /\ attempts \in Seq(RecordOf)
    /\ Len(attempts) = Len(calls)
    /\ \A k \in 1..Len(calls) : Faithful(calls[k], attempts[k])

NoneServed == \A k \in 1..Len(calls) : ~attempts[k].served

\* What is owed names the rung of the one position that was served, if there is one,
\* and is what that one reported; the others were not served.
DueAs(i) ==
    /\ i.attempts = attempts /\ IsUsage(i.usage)
    /\ i.sells \in Tables /\ i.cost = Cost(i.sells, i.usage)
    /\ i.basis = <<>> \/ \E table \in Tables : i.basis = <<table>>
    /\ i.reached \in BOOLEAN
    /\ ~i.reached => NoneServed
    /\ i.reached =>
         /\ Len(calls) > 0
         /\ \A k \in 1..Len(calls) : attempts[k].served <=> k = Len(calls)
         /\ calls[Len(calls)].told = <<>> => i.usage = NoUsage
         /\ calls[Len(calls)].told # <<>> =>
              /\ i.usage = calls[Len(calls)].told[1]
              /\ i.basis = <<At(Route[calls[Len(calls)].rung], i.usage.prompt)>>

Lacking == {"nothing", "written", "tokens"}

BookedBy(i) ==
    \E lacks \in Lacking :
        (lacks = "written" => NoWrites(i)) /\ booked = <<RowOf(i, lacks)>>

AttemptsInv ==
    /\ rung \in Nat \ {0} /\ Positions
    /\ intent = <<>> => NoneServed /\ booked = <<>>
    /\ intent # <<>> => intent = <<intent[1]>> /\ DueAs(intent[1])
    /\ booked # <<>> => intent # <<>> /\ BookedBy(intent[1])

LEMMA OneOfMore ==
    ASSUME NEW n \in Nat, NEW m, m = n + 1, NEW k \in 1..m
    PROVE  k \in 1..n \/ k = n + 1
  OBVIOUS

LEMMA OneMoreCall ==
    ASSUME Positions, NEW c, NEW a, Recorded(c, a),
           calls' = Append(calls, c), attempts' = Append(attempts, a)
    PROVE  /\ Positions' /\ Len(calls) \in Nat /\ Len(calls') = Len(calls) + 1
           /\ calls'[Len(calls) + 1] = c /\ attempts'[Len(calls) + 1] = a
           /\ \A k \in 1..Len(calls) : attempts'[k] = attempts[k]
<1>1. /\ calls \in Seq(CallOf) /\ c \in CallOf /\ Len(calls) \in Nat
      /\ attempts \in Seq(RecordOf) /\ a \in RecordOf /\ Len(attempts) = Len(calls)
  BY DEF Positions, Recorded
<1>2. /\ calls' \in Seq(CallOf) /\ Len(calls') = Len(calls) + 1
      /\ calls'[Len(calls) + 1] = c
      /\ \A k \in 1..Len(calls) : calls'[k] = calls[k]
  BY <1>1
<1>3. /\ attempts' \in Seq(RecordOf) /\ Len(attempts') = Len(calls) + 1
      /\ attempts'[Len(calls) + 1] = a
      /\ \A k \in 1..Len(calls) : attempts'[k] = attempts[k]
  BY <1>1
<1>4. \A k \in 1..Len(calls') : Faithful(calls'[k], attempts'[k])
  <2> SUFFICES ASSUME NEW k \in 1..Len(calls') PROVE Faithful(calls'[k], attempts'[k])
    OBVIOUS
  <2>1. CASE k \in 1..Len(calls)
    BY <1>2, <1>3, <2>1 DEF Positions
  <2>2. CASE k = Len(calls) + 1
    BY <1>2, <1>3, <2>2 DEF Recorded
  <2> QED BY <1>1, <1>2, <2>1, <2>2
<1> QED BY <1>1, <1>2, <1>3, <1>4 DEF Positions

\* A position that was not served and leaves the walk going.
LEMMA WalksOn ==
    ASSUME AttemptsInv, Walking, rung' \in {rung, rung + 1},
           NEW c, NEW a, Recorded(c, a), ~a.served,
           calls' = Append(calls, c), attempts' = Append(attempts, a),
           UNCHANGED <<intent, booked>>
    PROVE  AttemptsInv'
<1>1. /\ Positions' /\ Len(calls) \in Nat /\ Len(calls') = Len(calls) + 1
      /\ calls'[Len(calls) + 1] = c /\ attempts'[Len(calls) + 1] = a
      /\ \A k \in 1..Len(calls) : attempts'[k] = attempts[k]
  BY OneMoreCall DEF AttemptsInv
<1>2. intent = <<>> /\ booked = <<>> /\ NoneServed
  BY DEF Walking, AttemptsInv
<1>3. NoneServed'
  <2> SUFFICES ASSUME NEW k \in 1..Len(calls') PROVE ~attempts'[k].served
    BY DEF NoneServed
  <2>1. k \in 1..Len(calls) \/ k = Len(calls) + 1
    BY <1>1, OneOfMore
  <2>2. CASE k \in 1..Len(calls)
    BY <1>1, <1>2, <2>2 DEF NoneServed
  <2>3. CASE k = Len(calls) + 1
    BY <1>1, <2>3
  <2> QED BY <2>1, <2>2, <2>3
<1>4. rung' \in Nat \ {0}
  BY DEF AttemptsInv
<1> QED BY <1>1, <1>2, <1>3, <1>4 DEF AttemptsInv

\* What is owed, at a rung the route has.
LEMMA OwedAs ==
    ASSUME AttemptsAssumption, NEW usage, IsUsage(usage), NEW named \in 0..Len(Route),
           NEW recs, NEW reached, Owe(usage, named, recs, reached)
    PROVE  /\ intent' # <<>> /\ intent' = <<intent'[1]>>
           /\ intent'[1].usage = usage /\ intent'[1].attempts = recs
           /\ intent'[1].reached = reached
           /\ intent'[1].sells \in Tables
           /\ intent'[1].cost = Cost(intent'[1].sells, usage)
           /\ intent'[1].basis = <<>> \/ \E table \in Tables : intent'[1].basis = <<table>>
           /\ named # 0 => intent'[1].basis = <<At(Route[named], usage.prompt)>>
<1> DEFINE i == [usage |-> usage, sells |-> At(Sells, usage.prompt),
                 basis |-> IF named = 0 THEN <<>> ELSE <<At(Route[named], usage.prompt)>>,
                 cost |-> Cost(At(Sells, usage.prompt), usage),
                 attempts |-> recs, reached |-> reached]
<1>1. intent' = <<i>>
  BY DEF Owe
<1>2. /\ i.usage = usage /\ i.attempts = recs /\ i.reached = reached
      /\ i.sells = At(Sells, usage.prompt) /\ i.cost = Cost(i.sells, usage)
      /\ i.basis = IF named = 0 THEN <<>> ELSE <<At(Route[named], usage.prompt)>>
  OBVIOUS
<1> HIDE DEF i
<1>3. intent' # <<>> /\ intent'[1] = i
  BY <1>1
<1>4. usage.prompt \in Nat
  BY DEF IsUsage
<1>5. i.sells \in Tables
  BY <1>2, <1>4, AtIsTable DEF AttemptsAssumption
<1>6. CASE named = 0
  BY <1>1, <1>2, <1>3, <1>5, <1>6
<1>7. CASE named # 0
  <2>1. At(Route[named], usage.prompt) \in Tables
    BY <1>4, <1>7, AtIsTable DEF AttemptsAssumption
  <2> QED BY <1>1, <1>2, <1>3, <1>5, <1>7, <2>1
<1> QED BY <1>6, <1>7

\* The position a walk is settled at.
LEMMA SettledHere ==
    ASSUME AttemptsAssumption, AttemptsInv, Walking, UNCHANGED <<rung, booked>>,
           NEW c, NEW a, Recorded(c, a), c.rung = rung,
           calls' = Append(calls, c), attempts' = Append(attempts, a),
           NEW usage, IsUsage(usage), NEW reached \in BOOLEAN, a.served = reached,
           Owe(usage, rung, attempts', reached),
           reached => /\ c.told = <<>> => usage = NoUsage
                      /\ c.told # <<>> => usage = c.told[1]
    PROVE  AttemptsInv'
<1>1. /\ Positions' /\ Len(calls) \in Nat /\ Len(calls') = Len(calls) + 1
      /\ calls'[Len(calls) + 1] = c /\ attempts'[Len(calls) + 1] = a
      /\ \A k \in 1..Len(calls) : attempts'[k] = attempts[k]
  BY OneMoreCall DEF AttemptsInv
<1>2. /\ intent = <<>> /\ booked = <<>> /\ NoneServed /\ booked' = <<>>
      /\ rung \in 1..Len(Route) /\ rung' \in Nat \ {0}
  BY DEF Walking, AttemptsInv, AttemptsAssumption
<1>3. /\ intent' # <<>> /\ intent' = <<intent'[1]>>
      /\ intent'[1].usage = usage /\ intent'[1].attempts = attempts'
      /\ intent'[1].reached = reached
      /\ intent'[1].sells \in Tables
      /\ intent'[1].cost = Cost(intent'[1].sells, usage)
      /\ intent'[1].basis = <<>> \/ \E table \in Tables : intent'[1].basis = <<table>>
      /\ rung # 0 => intent'[1].basis = <<At(Route[rung], usage.prompt)>>
  <2>1. rung \in 0..Len(Route)
    BY <1>2
  <2> DEFINE recs == attempts'
  <2>2. Owe(usage, rung, recs, reached)
    OBVIOUS
  <2> HIDE DEF recs
  <2>3. /\ intent' # <<>> /\ intent' = <<intent'[1]>>
        /\ intent'[1].usage = usage /\ intent'[1].attempts = recs
        /\ intent'[1].reached = reached
        /\ intent'[1].sells \in Tables
        /\ intent'[1].cost = Cost(intent'[1].sells, usage)
        /\ intent'[1].basis = <<>> \/ \E table \in Tables : intent'[1].basis = <<table>>
        /\ rung # 0 => intent'[1].basis = <<At(Route[rung], usage.prompt)>>
    BY <2>1, <2>2, OwedAs
  <2> QED BY <2>3 DEF recs
<1>4. \A k \in 1..Len(calls') : attempts'[k].served <=> (reached /\ k = Len(calls'))
  <2> SUFFICES ASSUME NEW k \in 1..Len(calls')
               PROVE  attempts'[k].served <=> (reached /\ k = Len(calls'))
    OBVIOUS
  <2>1. k \in 1..Len(calls) \/ k = Len(calls) + 1
    BY <1>1, OneOfMore
  <2>2. CASE k \in 1..Len(calls)
    <3>1. ~attempts'[k].served
      BY <1>1, <1>2, <2>2 DEF NoneServed
    <3>2. k # Len(calls')
      BY <1>1, <2>2
    <3> QED BY <3>1, <3>2
  <2>3. CASE k = Len(calls) + 1
    BY <1>1, <2>3
  <2> QED BY <2>1, <2>2, <2>3
<1>5. DueAs(intent[1])'
  <2>1. ~reached => NoneServed'
    BY <1>4 DEF NoneServed
  <2>2. calls'[Len(calls')] = c /\ Len(calls') > 0
    BY <1>1
  <2>3. rung # 0
    BY <1>2
  <2> QED BY <1>3, <1>4, <2>1, <2>2, <2>3 DEF DueAs
<1> QED BY <1>1, <1>2, <1>3, <1>5 DEF AttemptsInv

\* The rung a row names is one of the route's, or none.
LEMMA NamedRung ==
    ASSUME AttemptsAssumption, Positions
    PROVE  LastCandidate(calls) \in 0..Len(Route)
<1> DEFINE called == {n \in DOMAIN calls : calls[n].dispatched}
<1>0. DOMAIN calls = 1..Len(calls) /\ Len(calls) \in Nat
  BY DEF Positions
<1>1. \A n \in 1..Len(calls) : calls[n] \in CallOf
  BY DEF Positions
<1>2. CASE called = {}
  <2>1. LastCandidate(calls) = 0
    BY <1>2 DEF LastCandidate
  <2> QED BY <2>1 DEF AttemptsAssumption
<1>3. CASE called # {}
  <2>1. IsFiniteSet(called) /\ called \subseteq Int
    <3>1. called \subseteq 1..Len(calls)
      BY <1>0
    <3> HIDE DEF called
    <3>2. IsFiniteSet(1..Len(calls))
      <4>1. 0 \in Int /\ 1 \in Int /\ Len(calls) \in Int
        BY <1>0
      <4> QED BY <4>1, FS_Interval
    <3>3. IsFiniteSet(called)
      BY <3>1, <3>2, FS_Subset
    <3> QED BY <3>1, <3>3, <1>0
  <2>2. \E n \in called : \A m \in called : n >= m
    <3> HIDE DEF called
    <3> QED BY <1>3, <2>1, Greatest
  <2>3. \E n \in called : \A m \in called : m <= n
    <3> HIDE DEF called
    <3> QED BY <2>1, <2>2
  <2> DEFINE last == CHOOSE n \in called : \A m \in called : m <= n
  <2>4. last \in called
    <3> HIDE DEF called
    <3> QED BY <2>3
  <2>5. LastCandidate(calls) = calls[last].rung
    BY <1>3 DEF LastCandidate
  <2> HIDE DEF last
  <2>6. last \in 1..Len(calls)
    BY <1>0, <2>4
  <2>7. calls[last].rung \in 1..Len(Route)
    BY <1>1, <2>6 DEF CallOf
  <2> QED BY <2>5, <2>7
<1> QED BY <1>2, <1>3

LEMMA NoUsageTyped ==
    NoUsage \in Spend /\ IsUsage(NoUsage) /\ NoUsage.prompt = 0
  BY DEF NoUsage, BoundOf, Spend, IsUsage

\* What a call drew is a usage, and a report of all of it is a report of a part.
LEMMA DrawnTyped ==
    ASSUME AttemptsAssumption, NEW used \in Drawn
    PROVE  /\ used \in Spend /\ used.prompt > 0 /\ used.output \in Nat
           /\ [used EXCEPT !.output = used.output] = used
  BY DEF AttemptsAssumption, Spend

\* A whole answer, with a report or without.
LEMMA WholeRecorded ==
    ASSUME AttemptsAssumption, rung \in 1..Len(Route), NEW used \in Drawn,
           NEW told \in {<<>>, <<Reported(used)>>}, NEW served \in BOOLEAN
    PROVE  /\ Recorded(Position(TRUE, used, told), Attempt(served, TokensOf(told, 0), FALSE))
           /\ told # <<>> => told[1] \in Spend
<1>1. used \in Spend /\ used.prompt > 0 /\ used.output \in Nat
      /\ [used EXCEPT !.output = used.output] = used
  BY DrawnTyped
<1>2. CASE told = <<>>
  <2>1. TokensOf(told, 0) = Unknown
    BY <1>2 DEF TokensOf
  <2> QED BY <1>1, <1>2, <2>1, SilentRecorded
<1>3. CASE told = <<Reported(used)>>
  <2>1. TokensOf(told, 0) = Measured(Reported(used)) /\ told[1] = Reported(used)
    BY <1>3 DEF TokensOf
  <2> DEFINE n == used.output  u == Reported(used)
  <2>2. n \in Nat /\ n <= used.output /\ u = Reported([used EXCEPT !.output = n])
    BY <1>1
  <2> HIDE DEF n, u
  <2>3. /\ Recorded(Position(TRUE, used, <<u>>), Attempt(served, Measured(u), FALSE))
        /\ u \in Spend
    BY <1>1, <2>2, ToldRecorded
  <2> QED BY <1>3, <2>1, <2>3 DEF u
<1> QED BY <1>2, <1>3

\* A stream that was cut off, at whatever it had come to.
LEMMA CutRecorded ==
    ASSUME AttemptsAssumption, rung \in 1..Len(Route), NEW used \in Drawn,
           NEW heard \in Heard(used), NEW sent \in BOOLEAN
    PROVE  /\ Recorded(Position(TRUE, used, heard.told),
                       Attempt(sent, TokensOf(heard.told, heard.chunks),
                               heard.told = <<>> /\ heard.chunks > 0))
           /\ heard.told # <<>> => heard.told[1] \in Spend
<1>1. used \in Spend /\ used.prompt > 0 /\ used.output \in Nat
  BY DrawnTyped
<1>2. ASSUME NEW n \in 0..used.output,
             heard = [told |-> <<Reported([used EXCEPT !.output = n])>>, chunks |-> 0]
      PROVE  /\ Recorded(Position(TRUE, used, heard.told),
                         Attempt(sent, TokensOf(heard.told, heard.chunks),
                                 heard.told = <<>> /\ heard.chunks > 0))
             /\ heard.told # <<>> => heard.told[1] \in Spend
  <2> DEFINE u == Reported([used EXCEPT !.output = n])
  <2>1. heard.told = <<u>> /\ heard.chunks = 0
    BY <1>2
  <2>2. n \in Nat /\ n <= used.output /\ u = Reported([used EXCEPT !.output = n])
    BY <1>1
  <2> HIDE DEF u
  <2>3. <<u>> # <<>> /\ <<u>>[1] = u
    OBVIOUS
  <2>4. TokensOf(heard.told, heard.chunks) = Measured(u) /\ ~(heard.told = <<>> /\ heard.chunks > 0)
    BY <2>1, <2>3 DEF TokensOf
  <2>5. (heard.told = <<>> /\ heard.chunks > 0) = FALSE
    BY <2>4
  <2>6. /\ Recorded(Position(TRUE, used, <<u>>), Attempt(sent, Measured(u), FALSE))
        /\ u \in Spend
    BY <1>1, <2>2, ToldRecorded
  <2> QED BY <2>1, <2>3, <2>4, <2>5, <2>6
<1>3. ASSUME NEW n \in 0..used.output, heard = [told |-> <<>>, chunks |-> n]
      PROVE  /\ Recorded(Position(TRUE, used, heard.told),
                         Attempt(sent, TokensOf(heard.told, heard.chunks),
                                 heard.told = <<>> /\ heard.chunks > 0))
             /\ heard.told # <<>> => heard.told[1] \in Spend
  <2>1. heard.told = <<>> /\ heard.chunks = n /\ n \in Nat /\ n <= used.output
    BY <1>1, <1>3
  <2>2. CASE n > 0
    <3>1. TokensOf(heard.told, heard.chunks) = OutputFloor(n)
      BY <2>1, <2>2 DEF TokensOf
    <3> DEFINE guessed == heard.told = <<>> /\ heard.chunks > 0
    <3>2. guessed \in BOOLEAN
      OBVIOUS
    <3> HIDE DEF guessed
    <3>3. Recorded(Position(TRUE, used, <<>>), Attempt(sent, OutputFloor(n), guessed))
      BY <1>1, <2>1, <2>2, <3>2, CountedRecorded
    <3>4. Recorded(Position(TRUE, used, heard.told),
                   Attempt(sent, TokensOf(heard.told, heard.chunks), guessed))
      BY <2>1, <3>1, <3>3
    <3> QED BY <2>1, <3>4 DEF guessed
  <2>3. CASE n = 0
    <3>1. TokensOf(heard.told, heard.chunks) = Unknown
      BY <2>1, <2>3 DEF TokensOf
    <3>2. (heard.told = <<>> /\ heard.chunks > 0) = FALSE
      BY <2>1, <2>3
    <3>3. Recorded(Position(TRUE, used, <<>>), Attempt(sent, Unknown, FALSE))
      BY <1>1, SilentRecorded
    <3> QED BY <2>1, <3>1, <3>2, <3>3
  <2>4. n > 0 \/ n = 0
    BY <2>1
  <2> QED BY <2>2, <2>3, <2>4
<1> QED BY <1>2, <1>3 DEF Heard

\* What is settled is a usage, and of output that reached the client it is what was
\* reported.
LEMMA SettledTyped ==
    ASSUME NEW sent \in BOOLEAN, NEW told, told # <<>> => told[1] \in Spend
    PROVE  /\ IsUsage(SettledUsage(sent, told))
           /\ sent => /\ told = <<>> => SettledUsage(sent, told) = NoUsage
                      /\ told # <<>> => SettledUsage(sent, told) = told[1]
  BY NoUsageTyped, SpendIsUsage DEF SettledUsage

LEMMA AttemptsStart == AttemptsInit => AttemptsInv
<1> SUFFICES ASSUME AttemptsInit PROVE AttemptsInv
  OBVIOUS
<1>1. calls = <<>> /\ attempts = <<>> /\ intent = <<>> /\ booked = <<>> /\ rung = 1
  BY DEF AttemptsInit
<1>2. Len(<<>>) = 0 /\ <<>> \in Seq(CallOf) /\ <<>> \in Seq(RecordOf)
  OBVIOUS
<1>3. Positions /\ NoneServed
  BY <1>1, <1>2 DEF Positions, NoneServed
<1> QED BY <1>1, <1>3 DEF AttemptsInv

LEMMA AttemptsKept ==
    ASSUME AttemptsAssumption, AttemptsInv, [AttemptsNext]_attemptVars
    PROVE  AttemptsInv'
<1>0. Walking => rung \in 1..Len(Route)
  BY DEF AttemptsInv, Walking, AttemptsAssumption
<1>1. ASSUME Skip PROVE AttemptsInv'
  <2> DEFINE c == Position(FALSE, NoUsage, <<>>)
             a == Attempt(FALSE, Unknown, FALSE)
  <2>1. /\ Walking /\ calls' = Append(calls, c) /\ attempts' = Append(attempts, a)
        /\ rung' \in {rung, rung + 1} /\ UNCHANGED <<intent, booked>>
    BY <1>1 DEF Skip
  <2>2. Recorded(c, a)
    BY <1>0, <2>1, NoUsageTyped, SilentRecorded
  <2>3. ~a.served
    BY DEF Attempt
  <2> HIDE DEF c, a
  <2> QED BY <2>1, <2>2, <2>3, WalksOn
<1>2. ASSUME CallFails PROVE AttemptsInv'
  <2>1. PICK used \in Drawn \cup {NoUsage} :
             calls' = Append(calls, Position(TRUE, used, <<>>))
    BY <1>2 DEF CallFails
  <2> DEFINE c == Position(TRUE, used, <<>>)
             a == Attempt(FALSE, Unknown, FALSE)
  <2>2. /\ Walking /\ calls' = Append(calls, c) /\ attempts' = Append(attempts, a)
        /\ rung' \in {rung, rung + 1} /\ UNCHANGED <<intent, booked>>
    BY <1>2, <2>1 DEF CallFails
  <2>3. used \in Spend
    BY NoUsageTyped, DrawnTyped
  <2>4. Recorded(c, a)
    BY <1>0, <2>2, <2>3, SilentRecorded
  <2>5. ~a.served
    BY DEF Attempt
  <2> HIDE DEF c, a
  <2> QED BY <2>2, <2>4, <2>5, WalksOn
<1>3. ASSUME Reroll PROVE AttemptsInv'
  <2>1. PICK used \in Drawn : \E told \in {<<>>, <<Reported(used)>>} :
        /\ calls' = Append(calls, Position(TRUE, used, told))
        /\ attempts' = Append(attempts, Attempt(FALSE, TokensOf(told, 0), FALSE))
    BY <1>3 DEF Reroll
  <2>2. PICK told \in {<<>>, <<Reported(used)>>} :
        /\ calls' = Append(calls, Position(TRUE, used, told))
        /\ attempts' = Append(attempts, Attempt(FALSE, TokensOf(told, 0), FALSE))
    BY <2>1
  <2> DEFINE c == Position(TRUE, used, told)
             a == Attempt(FALSE, TokensOf(told, 0), FALSE)
  <2>3. /\ Walking /\ calls' = Append(calls, c) /\ attempts' = Append(attempts, a)
        /\ rung' \in {rung, rung + 1} /\ UNCHANGED <<intent, booked>>
    BY <1>3, <2>2 DEF Reroll
  <2>4. Recorded(c, a)
    BY <1>0, <2>3, WholeRecorded
  <2>5. ~a.served
    BY DEF Attempt
  <2> HIDE DEF c, a
  <2> QED BY <2>3, <2>4, <2>5, WalksOn
<1>4. ASSUME ServeWhole PROVE AttemptsInv'
  <2>1. PICK used \in Drawn : \E told \in {<<>>, <<Reported(used)>>} :
        /\ calls' = Append(calls, Position(TRUE, used, told))
        /\ attempts' = Append(attempts, Attempt(told # <<>>, TokensOf(told, 0), FALSE))
        /\ Owe(SettledUsage(TRUE, told), rung, attempts', told # <<>>)
    BY <1>4 DEF ServeWhole
  <2>2. PICK told \in {<<>>, <<Reported(used)>>} :
        /\ calls' = Append(calls, Position(TRUE, used, told))
        /\ attempts' = Append(attempts, Attempt(told # <<>>, TokensOf(told, 0), FALSE))
        /\ Owe(SettledUsage(TRUE, told), rung, attempts', told # <<>>)
    BY <2>1
  <2> DEFINE reached == told # <<>>
             usage == SettledUsage(TRUE, told)
             c == Position(TRUE, used, told)
             a == Attempt(reached, TokensOf(told, 0), FALSE)
  <2>3. /\ Walking /\ calls' = Append(calls, c) /\ attempts' = Append(attempts, a)
        /\ Owe(usage, rung, attempts', reached) /\ UNCHANGED <<rung, booked>>
    BY <1>4, <2>2 DEF ServeWhole
  <2>4. reached \in BOOLEAN
    OBVIOUS
  <2> HIDE DEF reached
  <2>5. Recorded(c, a) /\ (told # <<>> => told[1] \in Spend)
    BY <1>0, <2>3, <2>4, WholeRecorded
  <2>6. a.served = reached /\ c.rung = rung /\ c.told = told
    BY DEF Attempt, Position
  <2>7. /\ IsUsage(usage)
        /\ told = <<>> => usage = NoUsage
        /\ told # <<>> => usage = told[1]
    BY <2>5, SettledTyped
  <2> HIDE DEF c, a, usage
  <2> QED BY <2>3, <2>4, <2>5, <2>6, <2>7, SettledHere
<1>5. ASSUME StreamEnds PROVE AttemptsInv'
  <2>1. PICK used \in Drawn : \E told \in {<<>>, <<Reported(used)>>} :
        \E offered, sent \in BOOLEAN :
        /\ sent => offered
        /\ calls' = Append(calls, Position(TRUE, used, told))
        /\ attempts' = Append(attempts, Attempt(sent, TokensOf(told, 0), FALSE))
        /\ Owe(SettledUsage(~(offered /\ ~sent), told), rung, attempts', sent)
    BY <1>5 DEF StreamEnds
  <2>2. PICK told \in {<<>>, <<Reported(used)>>} : \E offered, sent \in BOOLEAN :
        /\ sent => offered
        /\ calls' = Append(calls, Position(TRUE, used, told))
        /\ attempts' = Append(attempts, Attempt(sent, TokensOf(told, 0), FALSE))
        /\ Owe(SettledUsage(~(offered /\ ~sent), told), rung, attempts', sent)
    BY <2>1
  <2>3. PICK offered \in BOOLEAN, sent \in BOOLEAN :
        /\ sent => offered
        /\ calls' = Append(calls, Position(TRUE, used, told))
        /\ attempts' = Append(attempts, Attempt(sent, TokensOf(told, 0), FALSE))
        /\ Owe(SettledUsage(~(offered /\ ~sent), told), rung, attempts', sent)
    BY <2>2
  <2> DEFINE billing == ~(offered /\ ~sent)
             usage == SettledUsage(billing, told)
             c == Position(TRUE, used, told)
             a == Attempt(sent, TokensOf(told, 0), FALSE)
  <2>4. /\ Walking /\ calls' = Append(calls, c) /\ attempts' = Append(attempts, a)
        /\ Owe(usage, rung, attempts', sent) /\ UNCHANGED <<rung, booked>>
    BY <1>5, <2>3 DEF StreamEnds
  <2>5. billing \in BOOLEAN /\ (sent => billing)
    OBVIOUS
  <2> HIDE DEF billing
  <2>6. Recorded(c, a) /\ (told # <<>> => told[1] \in Spend)
    BY <1>0, <2>4, WholeRecorded
  <2>7. a.served = sent /\ c.rung = rung /\ c.told = told
    BY DEF Attempt, Position
  <2>8. /\ IsUsage(usage)
        /\ sent => /\ told = <<>> => usage = NoUsage
                   /\ told # <<>> => usage = told[1]
    BY <2>5, <2>6, SettledTyped
  <2> HIDE DEF c, a, usage
  <2> QED BY <2>4, <2>6, <2>7, <2>8, SettledHere
<1>6. ASSUME StreamBreaks PROVE AttemptsInv'
  <2>1. PICK used \in Drawn : \E heard \in Heard(used) : \E sent, gone \in BOOLEAN :
        /\ CutOff(used, heard, sent)
        /\ IF sent \/ gone
           THEN Owe(SettledUsage(sent, heard.told), rung, attempts', sent) /\ UNCHANGED rung
           ELSE rung' = rung + 1 /\ UNCHANGED intent
    BY <1>6 DEF StreamBreaks
  <2>2. PICK heard \in Heard(used) : \E sent, gone \in BOOLEAN :
        /\ CutOff(used, heard, sent)
        /\ IF sent \/ gone
           THEN Owe(SettledUsage(sent, heard.told), rung, attempts', sent) /\ UNCHANGED rung
           ELSE rung' = rung + 1 /\ UNCHANGED intent
    BY <2>1
  <2>3. PICK sent \in BOOLEAN, gone \in BOOLEAN :
        /\ CutOff(used, heard, sent)
        /\ IF sent \/ gone
           THEN Owe(SettledUsage(sent, heard.told), rung, attempts', sent) /\ UNCHANGED rung
           ELSE rung' = rung + 1 /\ UNCHANGED intent
    BY <2>2
  <2> DEFINE guessed == heard.told = <<>> /\ heard.chunks > 0
             usage == SettledUsage(sent, heard.told)
             c == Position(TRUE, used, heard.told)
             a == Attempt(sent, TokensOf(heard.told, heard.chunks), guessed)
  <2>4. /\ Walking /\ calls' = Append(calls, c) /\ attempts' = Append(attempts, a)
        /\ UNCHANGED booked
    BY <1>6, <2>3 DEF StreamBreaks, CutOff
  <2>5. Recorded(c, a) /\ (heard.told # <<>> => heard.told[1] \in Spend)
    BY <1>0, <2>4, CutRecorded
  <2>6. a.served = sent /\ c.rung = rung /\ c.told = heard.told
    BY DEF Attempt, Position
  <2>7. /\ IsUsage(usage)
        /\ sent => /\ heard.told = <<>> => usage = NoUsage
                   /\ heard.told # <<>> => usage = heard.told[1]
    BY <2>5, SettledTyped
  <2>8. \/ Owe(usage, rung, attempts', sent) /\ UNCHANGED rung
        \/ ~sent /\ rung' = rung + 1 /\ UNCHANGED intent
    BY <2>3
  <2> HIDE DEF c, a, usage, guessed
  <2>9. CASE Owe(usage, rung, attempts', sent) /\ UNCHANGED rung
    BY <2>4, <2>5, <2>6, <2>7, <2>9, SettledHere
  <2>10. CASE ~sent /\ rung' = rung + 1 /\ UNCHANGED intent
    BY <2>4, <2>5, <2>6, <2>10, WalksOn
  <2> QED BY <2>8, <2>9, <2>10
<1>7. ASSUME StreamInterrupted PROVE AttemptsInv'
  <2>1. PICK used \in Drawn : \E heard \in Heard(used) : \E sent \in BOOLEAN :
        /\ CutOff(used, heard, sent)
        /\ Owe(SettledUsage(sent, heard.told), rung, attempts', sent)
    BY <1>7 DEF StreamInterrupted
  <2>2. PICK heard \in Heard(used) : \E sent \in BOOLEAN :
        /\ CutOff(used, heard, sent)
        /\ Owe(SettledUsage(sent, heard.told), rung, attempts', sent)
    BY <2>1
  <2>3. PICK sent \in BOOLEAN :
        /\ CutOff(used, heard, sent)
        /\ Owe(SettledUsage(sent, heard.told), rung, attempts', sent)
    BY <2>2
  <2> DEFINE guessed == heard.told = <<>> /\ heard.chunks > 0
             usage == SettledUsage(sent, heard.told)
             c == Position(TRUE, used, heard.told)
             a == Attempt(sent, TokensOf(heard.told, heard.chunks), guessed)
  <2>4. /\ Walking /\ calls' = Append(calls, c) /\ attempts' = Append(attempts, a)
        /\ Owe(usage, rung, attempts', sent) /\ UNCHANGED <<rung, booked>>
    BY <1>7, <2>3 DEF StreamInterrupted, CutOff
  <2>5. Recorded(c, a) /\ (heard.told # <<>> => heard.told[1] \in Spend)
    BY <1>0, <2>4, CutRecorded
  <2>6. a.served = sent /\ c.rung = rung /\ c.told = heard.told
    BY DEF Attempt, Position
  <2>7. /\ IsUsage(usage)
        /\ sent => /\ heard.told = <<>> => usage = NoUsage
                   /\ heard.told # <<>> => usage = heard.told[1]
    BY <2>5, SettledTyped
  <2> HIDE DEF c, a, usage, guessed
  <2> QED BY <2>4, <2>5, <2>6, <2>7, SettledHere
<1>8. ASSUME WalkEnds PROVE AttemptsInv'
  <2>1. /\ intent = <<>> /\ Owe(NoUsage, LastCandidate(calls), attempts, FALSE)
        /\ UNCHANGED <<rung, calls, attempts, booked>>
    BY <1>8 DEF WalkEnds
  <2>2. Positions /\ NoneServed /\ booked = <<>> /\ rung \in Nat \ {0}
    BY <2>1 DEF AttemptsInv
  <2>3. LastCandidate(calls) \in 0..Len(Route) /\ IsUsage(NoUsage)
    BY <2>2, NamedRung, NoUsageTyped
  <2>4. /\ intent' # <<>> /\ intent' = <<intent'[1]>>
        /\ intent'[1].usage = NoUsage /\ intent'[1].attempts = attempts
        /\ intent'[1].reached = FALSE
        /\ intent'[1].sells \in Tables
        /\ intent'[1].cost = Cost(intent'[1].sells, NoUsage)
        /\ intent'[1].basis = <<>> \/ \E table \in Tables : intent'[1].basis = <<table>>
    BY <2>1, <2>3, OwedAs
  <2>5. Positions' /\ NoneServed'
    BY <2>1, <2>2 DEF Positions, NoneServed
  <2>6. DueAs(intent[1])'
    BY <2>1, <2>3, <2>4, <2>5 DEF DueAs
  <2> QED BY <2>1, <2>2, <2>4, <2>5, <2>6 DEF AttemptsInv
<1>9. ASSUME SettleRow PROVE AttemptsInv'
  <2>1. /\ intent # <<>> /\ booked = <<>> /\ UNCHANGED <<rung, calls, attempts, intent>>
        /\ \E lacks \in Lacking :
             (lacks = "written" => NoWrites(intent[1])) /\ booked' = <<RowOf(intent[1], lacks)>>
    BY <1>9 DEF SettleRow, Lacking
  <2>2. BookedBy(intent[1])'
    BY <2>1 DEF BookedBy
  <2>3. /\ Positions' /\ rung' \in Nat \ {0} /\ intent' # <<>> /\ intent' = <<intent'[1]>>
        /\ DueAs(intent[1])'
    BY <2>1 DEF AttemptsInv, Positions, DueAs, NoneServed
  <2> QED BY <2>2, <2>3 DEF AttemptsInv
<1>10. ASSUME UNCHANGED attemptVars PROVE AttemptsInv'
  BY <1>10 DEF attemptVars, AttemptsInv, Positions, NoneServed, DueAs, BookedBy
<1> QED BY <1>1, <1>2, <1>3, <1>4, <1>5, <1>6, <1>7, <1>8, <1>9, <1>10 DEF AttemptsNext

-----------------------------------------------------------------------------
(* The row.                                                                *)

\* The row is that of the payload, as some build reads it.
LEMMA BookedIs ==
    ASSUME AttemptsInv, booked # <<>>
    PROVE  /\ DOMAIN booked = {1} /\ DueAs(intent[1])
           /\ \E lacks \in Lacking :
                /\ lacks = "written" => NoWrites(intent[1])
                /\ booked[1] = RowOf(intent[1], lacks)
<1>1. DueAs(intent[1]) /\ BookedBy(intent[1])
  BY DEF AttemptsInv
<1>2. PICK lacks \in Lacking :
         (lacks = "written" => NoWrites(intent[1])) /\ booked = <<RowOf(intent[1], lacks)>>
  BY <1>1 DEF BookedBy
<1> DEFINE r == RowOf(intent[1], lacks)
<1>3. booked = <<r>> /\ lacks \in Lacking /\ (lacks = "written" => NoWrites(intent[1]))
  BY <1>2
<1> HIDE DEF r
<1>4. DOMAIN booked = {1} /\ booked[1] = r
  BY <1>3
<1> QED BY <1>1, <1>3, <1>4 DEF r

\* What the row keeps of the ledger: who was served and what it cost, whatever the
\* build that read it lacks.
LEMMA RowKeeps ==
    ASSUME AttemptsInv, NEW i, DueAs(i), NEW lacks \in Lacking,
           NEW recs, recs = RowsRead(i.attempts, lacks)
    PROVE  /\ Len(calls) \in Nat /\ IsFiniteSet(1..Len(calls))
           /\ DOMAIN recs = 1..Len(calls)
           /\ \A n \in 1..Len(calls) :
                /\ recs[n].served = attempts[n].served
                /\ recs[n].cost = attempts[n].cost
                /\ recs[n].tokens = TokensRead(attempts[n].tokens, lacks)
           /\ ~i.reached => ServedAmong(recs) = {}
           /\ i.reached => ServedAmong(recs) = {Len(calls)}
           /\ \A n \in 1..Len(calls) :
                attempts[n].served <=> i.reached /\ n = Len(calls)
<1>1. /\ Len(calls) \in Nat /\ DOMAIN attempts = 1..Len(calls)
  BY DEF AttemptsInv, Positions
<1>2. i.attempts = attempts
  BY DEF DueAs
<1>3. /\ DOMAIN recs = 1..Len(calls)
      /\ \A n \in 1..Len(calls) :
            /\ recs[n].served = attempts[n].served
            /\ recs[n].cost = attempts[n].cost
            /\ recs[n].tokens = TokensRead(attempts[n].tokens, lacks)
  BY <1>1, <1>2 DEF RowsRead
<1>4. IsFiniteSet(1..Len(calls))
  <2>1. 1 \in Int /\ Len(calls) \in Int
    BY <1>1
  <2> QED BY <2>1, FS_Interval
<1>5. \A n \in 1..Len(calls) : attempts[n].served <=> i.reached /\ n = Len(calls)
  BY DEF DueAs, NoneServed
<1>6. ~i.reached => ServedAmong(recs) = {}
  BY <1>3, <1>5 DEF ServedAmong
<1>7. i.reached => ServedAmong(recs) = {Len(calls)}
  <2> SUFFICES ASSUME i.reached PROVE ServedAmong(recs) = {Len(calls)}
    OBVIOUS
  <2>1. Len(calls) \in 1..Len(calls)
    BY <1>1 DEF DueAs
  <2> QED BY <1>3, <1>5, <2>1 DEF ServedAmong
<1> QED BY <1>1, <1>3, <1>4, <1>5, <1>6, <1>7

LEMMA RowFields ==
    ASSUME NEW i, NEW lacks, NEW r, r = RowOf(i, lacks)
    PROVE  /\ r.attempts = RowsRead(i.attempts, lacks)
           /\ r.usage = Reported(i.usage) /\ r.cost = i.cost
           /\ r.sells = RatesRead(i.sells, lacks)
           /\ r.basisCost = SettledBasis(r.attempts, r.basis, i.usage)
           /\ r.losses = Losses(r.attempts) /\ r.complete = AllMeasured(r.attempts)
           /\ DOMAIN r.basis = DOMAIN i.basis
           /\ \A n \in DOMAIN i.basis : r.basis[n] = RatesRead(i.basis[n], lacks)
  BY DEF RowOf

\* The served position's cost is the row's.
LEMMA BasisOfServed ==
    ASSUME AttemptsInv, NEW i, DueAs(i), NEW lacks \in Lacking,
           NEW r, r = RowOf(i, lacks), i.reached
    PROVE  r.basisCost = attempts[Len(calls)].cost /\ Len(calls) \in 1..Len(calls)
<1>0. /\ r.attempts = RowsRead(i.attempts, lacks)
      /\ r.basisCost = SettledBasis(r.attempts, r.basis, i.usage)
  BY RowFields
<1> DEFINE recs == r.attempts
<1>1. recs = RowsRead(i.attempts, lacks) /\ r.basisCost = SettledBasis(recs, r.basis, i.usage)
  BY <1>0
<1> HIDE DEF recs
<1>2. ServedAmong(recs) = {Len(calls)} /\ Len(calls) \in Nat
  BY <1>1, RowKeeps
<1>3. Len(calls) \in 1..Len(calls)
  BY <1>2 DEF DueAs
<1>4. recs[Len(calls)].cost = attempts[Len(calls)].cost
  BY <1>1, <1>3, RowKeeps
<1>5. \A S : S = {Len(calls)} =>
         (CHOOSE n \in S : \A m \in S : n <= m) = Len(calls)
  BY <1>2
<1>6. (CHOOSE n \in ServedAmong(recs) : \A m \in ServedAmong(recs) : n <= m) = Len(calls)
  BY <1>2, <1>5
<1> QED BY <1>1, <1>2, <1>3, <1>4, <1>6 DEF SettledBasis

\* A row with no tokens costs nothing at any table.
LEMMA NothingCosts ==
    ASSUME NEW table \in Tables, NEW u, IsUsage(u), Reported(u) = NoUsage
    PROVE  Cost(table, u) = 0
<1>1. /\ Reported(u).prompt = u.prompt /\ Reported(u).output = u.output
      /\ NoUsage.prompt = 0 /\ NoUsage.output = 0
  BY DEF Reported, NoUsage, BoundOf
<1>2. u.prompt = 0 /\ u.output = 0
  BY <1>1
<1>3. FreshOf(u) = 0 /\ CachedOf(u) = 0 /\ WrittenOf(u) = 0
  BY <1>2 DEF IsUsage, FreshOf, CachedOf, WrittenOf, Smaller
<1>4. \A d \in Dimensions : Effective(table, d) \in Nat
  BY EffectiveRate
<1>5. \A d \in Required : Effective(table, d) = table[d]
  BY DEF Effective, Tables, Required
<1>6. /\ table["input"] \in Nat /\ table["output"] \in Nat
      /\ Effective(table, "cached") \in Nat /\ Effective(table, "written") \in Nat
  BY <1>4, <1>5 DEF Dimensions, Required, Optional
<1> QED BY <1>2, <1>3, <1>6 DEF Cost

\* A table read without its rate for writes costs the same of a usage without writes.
LEMMA ReadCost ==
    ASSUME NEW table \in Tables, NEW u, IsUsage(u), NEW lacks,
           lacks = "written" => u.written = 0
    PROVE  Cost(RatesRead(table, lacks), u) = Cost(table, u)
<1>1. CASE lacks # "written"
  BY <1>1 DEF RatesRead
<1>2. CASE lacks = "written"
  <2> DEFINE t == [table EXCEPT !["written"] = Absent]
  <2>1. RatesRead(table, lacks) = t
    BY <1>2 DEF RatesRead
  <2>2. DOMAIN table = Dimensions
    BY DEF Tables
  <2>3. /\ t["input"] = table["input"] /\ t["output"] = table["output"]
        /\ t["cached"] = table["cached"] /\ t["written"] = Absent
    BY <2>2 DEF Dimensions, Required, Optional
  <2> HIDE DEF t
  <2>4. Effective(t, "cached") = Effective(table, "cached")
    BY <2>3 DEF Effective
  <2>5. \A d \in Dimensions : Effective(table, d) \in Nat
    BY EffectiveRate
  <2>6. \A d \in Required : Effective(table, d) = table[d]
    BY DEF Effective, Tables, Required
  <2>7. table["input"] \in Nat /\ Effective(table, "written") \in Nat
    BY <2>5, <2>6 DEF Dimensions, Required, Optional
  <2>8. Effective(t, "written") \in Nat
    BY <2>3, <2>7 DEF Effective
  <2>9. WrittenOf(u) = 0 /\ FreshOf(u) \in Nat /\ CachedOf(u) \in Nat
    BY <1>2, PromptSplits DEF WrittenOf, Smaller, IsUsage, CachedOf
  <2>10. WrittenOf(u) * Effective(t, "written") = WrittenOf(u) * Effective(table, "written")
    BY <2>7, <2>8, <2>9
  <2> QED BY <2>1, <2>3, <2>4, <2>10 DEF Cost
<1> QED BY <1>1, <1>2

\* A row that none of the positions served and that bills nothing cost nothing itself.
LEMMA BasisOfNone ==
    ASSUME AttemptsInv, NEW i, DueAs(i), NEW lacks \in Lacking,
           lacks = "written" => NoWrites(i),
           NEW r, r = RowOf(i, lacks), ~i.reached, ~IsBilled(r)
    PROVE  Known(r.basisCost) = 0
<1>1. /\ r.attempts = RowsRead(i.attempts, lacks) /\ r.usage = Reported(i.usage)
      /\ r.basisCost = SettledBasis(r.attempts, r.basis, i.usage)
      /\ DOMAIN r.basis = DOMAIN i.basis
      /\ \A n \in DOMAIN i.basis : r.basis[n] = RatesRead(i.basis[n], lacks)
  BY RowFields
<1>2. ServedAmong(r.attempts) = {}
  BY <1>1, RowKeeps
<1>3. CASE i.basis = <<>>
  <2>1. DOMAIN r.basis = {}
    BY <1>1, <1>3
  <2>2. r.basisCost = Absent
    BY <1>1, <1>2, <2>1 DEF SettledBasis
  <2> QED BY <2>2 DEF Known
<1>4. ASSUME NEW table \in Tables, i.basis = <<table>> PROVE Known(r.basisCost) = 0
  <2>1. DOMAIN i.basis = {1} /\ i.basis[1] = table
    BY <1>4
  <2>2. DOMAIN r.basis # {} /\ r.basis[1] = RatesRead(table, lacks)
    BY <1>1, <2>1
  <2>3. r.basisCost = Cost(RatesRead(table, lacks), i.usage)
    BY <1>1, <1>2, <2>2 DEF SettledBasis
  <2>4. IsUsage(i.usage) /\ Reported(i.usage) = NoUsage
    BY <1>1 DEF DueAs, IsBilled
  <2>5. lacks = "written" => i.usage.written = 0
    BY DEF NoWrites
  <2>6. Cost(RatesRead(table, lacks), i.usage) = 0
    BY <2>4, <2>5, ReadCost, NothingCosts
  <2> QED BY <2>3, <2>6 DEF Known
<1> QED BY <1>3, <1>4 DEF DueAs

\* Each position's cost is within what it drew, and known to be.
LEMMA WithinEach ==
    ASSUME AttemptsInv, NEW n \in 1..Len(calls)
    PROVE  /\ CostOf(calls[n], Reported(calls[n].used)) \in Nat
           /\ Known(attempts[n].cost) \in Nat
           /\ Known(attempts[n].cost) <= CostOf(calls[n], Reported(calls[n].used))
<1>1. WithinDrawn(calls[n], attempts[n].cost)
  BY DEF AttemptsInv, Positions, Faithful
<1> QED BY <1>1 DEF WithinDrawn, Known

LEMMA KnownNatural == \A n \in Nat : Known(n) = n
  BY PricingAssumption DEF Known

\* What the row counts as lost, position by position.
LEMMA LossesAre ==
    ASSUME AttemptsInv, NEW i, DueAs(i), NEW lacks \in Lacking,
           NEW recs, recs = RowsRead(i.attempts, lacks),
           NEW f, f = [n \in 1..Len(calls) |->
                         IF attempts[n].served THEN 0 ELSE Known(attempts[n].cost)]
    PROVE  /\ Known(Losses(recs)) = SumFunctionOnSet(f, 1..Len(calls))
           /\ SumFunctionOnSet(f, 1..Len(calls)) \in Nat
<1> DEFINE D == 1..Len(calls)
           g == [n \in DOMAIN recs |-> LossOf(recs[n])]
<1>1. /\ IsFiniteSet(D) /\ DOMAIN recs = D
      /\ \A n \in D : recs[n].served = attempts[n].served /\ recs[n].cost = attempts[n].cost
  BY RowKeeps
<1>2. g = f
  BY <1>1 DEF LossOf
<1>3. \A n \in D : f[n] \in Nat
  BY WithinEach
<1>4. DOMAIN f = D
  OBVIOUS
<1> HIDE DEF D
<1>5. SumFunctionOnSet(f, D) \in Nat
  BY <1>1, <1>3, SumType
<1>6. CASE D = {}
  <2>1. Losses(recs) = Absent
    BY <1>1, <1>6 DEF Losses
  <2>2. SumFunctionOnSet(f, D) = 0
    BY <1>6, SumEmpty
  <2> QED BY <1>5, <2>1, <2>2 DEF Known, D
<1>7. CASE D # {}
  <2>1. Losses(recs) = SumFunction(g)
    BY <1>1, <1>7 DEF Losses
  <2> HIDE DEF g
  <2>2. Losses(recs) = SumFunctionOnSet(f, D)
    BY <1>2, <1>4, <2>1 DEF SumFunction
  <2> QED BY <1>5, <2>2, KnownNatural DEF D
<1> QED BY <1>6, <1>7

\* What was served on one side, what was lost on the other: no more than was drawn.
LEMMA CountsOnce == ASSUME AttemptsInv PROVE CountedOnceWhenServed
<1> SUFFICES ASSUME booked # <<>>, IsBilled(booked[1]) => ServedAmong(booked[1].attempts) # {}
             PROVE  Known(booked[1].basisCost) + Known(booked[1].losses) <= Invoiced
  <2>1. CASE booked = <<>>
    BY <2>1 DEF CountedOnceWhenServed
  <2>2. CASE booked # <<>>
    BY <2>2, BookedIs DEF CountedOnceWhenServed
  <2> QED BY <2>1, <2>2
<1> DEFINE i == intent[1]  r == booked[1]  D == 1..Len(calls)
           f == [n \in D |-> IF attempts[n].served THEN 0 ELSE Known(attempts[n].cost)]
           d == [n \in D |-> CostOf(calls[n], Reported(calls[n].used))]
<1>1. PICK lacks \in Lacking : (lacks = "written" => NoWrites(i)) /\ r = RowOf(i, lacks)
  BY BookedIs
<1>2. DueAs(i)
  BY BookedIs
<1>3. r.attempts = RowsRead(i.attempts, lacks) /\ r.losses = Losses(r.attempts)
  BY <1>1, RowFields
<1>4. /\ Len(calls) \in Nat /\ IsFiniteSet(D)
      /\ ~i.reached => ServedAmong(r.attempts) = {}
      /\ \A n \in D : attempts[n].served <=> i.reached /\ n = Len(calls)
  BY <1>2, <1>3, RowKeeps
<1>5. /\ Known(r.losses) = SumFunctionOnSet(f, D) /\ SumFunctionOnSet(f, D) \in Nat
  <2> HIDE DEF i, r
  <2> QED BY <1>2, <1>3, LossesAre
<1>6. \A n \in D : /\ d[n] \in Nat /\ Known(attempts[n].cost) \in Nat
                   /\ Known(attempts[n].cost) <= d[n]
  BY WithinEach
<1>7. Invoiced = SumFunctionOnSet(d, D)
  <2>1. DOMAIN calls = D
    BY DEF AttemptsInv, Positions
  <2>2. Invoiced = SumFunction(d)
    BY <2>1 DEF Invoiced
  <2>3. DOMAIN d = D
    OBVIOUS
  <2> HIDE DEF d, D
  <2> QED BY <2>2, <2>3 DEF SumFunction
<1>8. CASE ~i.reached
  <2>1. Known(r.basisCost) = 0
    <3> HIDE DEF i, r
    <3>1. ~IsBilled(r)
      BY <1>4, <1>8 DEF r
    <3> QED BY <1>1, <1>2, <1>8, <3>1, BasisOfNone
  <2>2. \A n \in D : f[n] \in Int /\ d[n] \in Int /\ f[n] <= d[n]
    BY <1>6
  <2> HIDE DEF f, d, D, i, r
  <2>3. SumFunctionOnSet(f, D) <= SumFunctionOnSet(d, D)
    BY <1>4, <2>2, SumGrows
  <2>4. SumFunctionOnSet(d, D) \in Int
    BY <1>4, <2>2, SumType
  <2> QED BY <1>5, <1>7, <2>1, <2>3, <2>4 DEF r
<1>9. CASE i.reached
  <2> DEFINE last == Len(calls)
             g == [n \in D |-> IF n = last THEN Known(attempts[n].cost) ELSE f[n]]
  <2>1. last \in D /\ r.basisCost = attempts[last].cost
    <3> HIDE DEF i, r
    <3> QED BY <1>1, <1>2, <1>9, BasisOfServed
  <2>2. f[last] = 0 /\ g[last] = Known(attempts[last].cost)
    BY <1>4, <1>9, <2>1
  <2>3. f \in [D -> Int] /\ g \in [D -> Int]
    BY <1>6
  <2>4. \A n \in D : n # last => g[n] = f[n]
    OBVIOUS
  <2>5. \A n \in D : g[n] \in Int /\ d[n] \in Int /\ g[n] <= d[n]
    BY <1>6
  <2> HIDE DEF f, g, d, D, last, i, r
  <2>6. SumFunctionOnSet(g, D) = SumFunctionOnSet(f, D) + (g[last] - f[last])
    <3>1. IsFiniteSet(D) /\ last \in D
      BY <1>4, <2>1
    <3>2. \A x \in D : x # last => g[x] = f[x]
      BY <2>4
    <3> QED BY <2>3, <3>1, <3>2, SumChange
  <2>7. SumFunctionOnSet(g, D) <= SumFunctionOnSet(d, D)
    BY <1>4, <2>5, SumGrows
  <2>8. SumFunctionOnSet(d, D) \in Int
    BY <1>4, <2>5, SumType
  <2>9. Known(attempts[last].cost) \in Int
    BY <1>6, <2>1
  <2>10. Known(r.basisCost) = Known(attempts[last].cost)
    BY <2>1
  <2>11. Known(r.basisCost) + Known(r.losses) = SumFunctionOnSet(g, D)
    BY <1>5, <2>2, <2>6, <2>9, <2>10
  <2> QED BY <1>7, <2>7, <2>11 DEF r
<1> QED BY <1>8, <1>9

\* Whichever fields are lacking, what is not known of a call is not taken for known.
LEMMA StillIncomplete ==
    ASSUME NEW lacks \in Lacking, NEW t, IsComplete(TokensRead(t, lacks))
    PROVE  IsComplete(t)
<1>1. CASE lacks = "nothing"
  BY <1>1 DEF TokensRead
<1>2. CASE lacks = "written"
  <2>1. TokensRead(t, lacks) = Figures(t.input, t.output, t.cached, Absent)
    BY <1>2 DEF TokensRead
  <2>2. TokensRead(t, lacks)["written"] = Absent /\ "written" \in Dimensions
    BY <2>1 DEF Figures, Dimensions, Optional
  <2> QED BY <2>2 DEF IsComplete
<1>3. CASE lacks = "tokens"
  <2>1. TokensRead(t, lacks) = Unknown
    BY <1>3 DEF TokensRead
  <2>2. TokensRead(t, lacks)["written"] = Absent /\ "written" \in Dimensions
    BY <2>1 DEF Unknown, Figures, Dimensions, Optional
  <2> QED BY <2>2 DEF IsComplete
<1> QED BY <1>1, <1>2, <1>3 DEF Lacking

LEMMA LossesAreWhole == ASSUME AttemptsInv PROVE LossesWhole
<1> DEFINE D == 1..Len(calls)
           lost == {k \in DOMAIN calls : ~attempts[k].served}
           h == [k \in DOMAIN calls |->
                    IF k \in lost THEN CostOf(calls[k], calls[k].told[1]) ELSE 0]
<1> SUFFICES ASSUME booked # <<>>, booked[1].complete
             PROVE  /\ \A k \in lost : calls[k].told # <<>>
                    /\ Known(booked[1].losses) = SumFunction(h)
  <2>1. CASE booked = <<>>
    BY <2>1 DEF LossesWhole
  <2>2. CASE booked # <<>>
    BY <2>2, BookedIs DEF LossesWhole
  <2> QED BY <2>1, <2>2
<1> DEFINE i == intent[1]  r == booked[1]
           f == [n \in D |-> IF attempts[n].served THEN 0 ELSE Known(attempts[n].cost)]
<1>1. PICK lacks \in Lacking : r = RowOf(i, lacks)
  BY BookedIs
<1>2. DueAs(i)
  BY BookedIs
<1> HIDE DEF i, r
<1>3. /\ r.attempts = RowsRead(i.attempts, lacks) /\ r.losses = Losses(r.attempts)
      /\ r.complete = AllMeasured(r.attempts)
  BY <1>1, RowFields
<1>4. /\ Len(calls) \in Nat /\ IsFiniteSet(D) /\ DOMAIN r.attempts = D
      /\ \A n \in D : /\ r.attempts[n].served = attempts[n].served
                      /\ r.attempts[n].cost = attempts[n].cost
                      /\ r.attempts[n].tokens = TokensRead(attempts[n].tokens, lacks)
  BY <1>2, <1>3, RowKeeps
<1>5. DOMAIN calls = D
  BY DEF AttemptsInv, Positions
<1>6. ASSUME NEW k \in D, ~attempts[k].served
      PROVE  calls[k].told # <<>> /\ Known(attempts[k].cost) = CostOf(calls[k], calls[k].told[1])
  <2>1. AllMeasured(r.attempts)
    <3>1. r.complete
      BY DEF r
    <3> QED BY <1>3, <3>1
  <2>2. IsComplete(TokensRead(attempts[k].tokens, lacks))
    BY <1>4, <1>6, <2>1 DEF AllMeasured
  <2>3. IsComplete(attempts[k].tokens)
    BY <2>2, StillIncomplete
  <2>4. Faithful(calls[k], attempts[k])
    BY DEF AttemptsInv, Positions
  <2>5. calls[k].told # <<>>
    BY <2>3, <2>4 DEF Faithful
  <2>6. attempts[k].cost = CostOf(calls[k], calls[k].told[1]) /\ attempts[k].cost \in Nat
    BY <2>4, <2>5 DEF Faithful
  <2> QED BY <2>5, <2>6, KnownNatural
<1>7. \A k \in lost : calls[k].told # <<>>
  BY <1>5, <1>6
<1>8. h = f
  BY <1>5, <1>6
<1>9. Known(r.losses) = SumFunctionOnSet(f, D)
  <2> HIDE DEF i, r
  <2> QED BY <1>2, <1>3, LossesAre
<1>10. SumFunction(h) = SumFunctionOnSet(f, D)
  <2>1. DOMAIN f = D
    OBVIOUS
  <2> HIDE DEF f, h, D
  <2> QED BY <1>8, <2>1 DEF SumFunction
<1> QED BY <1>7, <1>9, <1>10 DEF r

\* A delivery that reported nothing is a served attempt beside a row without tokens.
LEMMA GapsAreFound == ASSUME AttemptsInv PROVE GapsFound
<1> SUFFICES ASSUME booked # <<>>
             PROVE  (ServedAmong(booked[1].attempts) # {} /\ ~IsBilled(booked[1]))
                      <=> (intent[1].reached /\ calls[Len(calls)].told = <<>>)
  <2>1. CASE booked = <<>>
    BY <2>1 DEF GapsFound
  <2>2. CASE booked # <<>>
    BY <2>2, BookedIs DEF GapsFound
  <2> QED BY <2>1, <2>2
<1> DEFINE i == intent[1]  r == booked[1]
<1>1. PICK lacks \in Lacking : r = RowOf(i, lacks)
  BY BookedIs
<1>2. DueAs(i)
  BY BookedIs
<1> HIDE DEF i, r
<1>3. r.attempts = RowsRead(i.attempts, lacks) /\ r.usage = Reported(i.usage)
  BY <1>1, RowFields
<1>4. /\ Len(calls) \in Nat
      /\ ~i.reached => ServedAmong(r.attempts) = {}
      /\ i.reached => ServedAmong(r.attempts) = {Len(calls)}
  BY <1>2, <1>3, RowKeeps
<1>5. ASSUME i.reached, calls[Len(calls)].told = <<>> PROVE ~IsBilled(r)
  <2>1. i.usage = NoUsage
    BY <1>2, <1>5 DEF DueAs
  <2>2. Reported(NoUsage) = NoUsage
    BY DEF Reported, NoUsage, BoundOf, CachedOf, WrittenOf, Smaller
  <2> QED BY <1>3, <2>1, <2>2 DEF IsBilled
<1>6. ASSUME i.reached, calls[Len(calls)].told # <<>> PROVE IsBilled(r)
  <2>1. i.usage = calls[Len(calls)].told[1] /\ Len(calls) \in 1..Len(calls)
    BY <1>2, <1>4, <1>6 DEF DueAs
  <2>2. i.usage.prompt > 0 /\ i.usage \in Spend
    BY <1>6, <2>1 DEF AttemptsInv, Positions, Faithful
  <2>3. r.usage.prompt > 0
    BY <1>3, <2>2 DEF Reported
  <2> QED BY <2>3, NoUsageTyped DEF IsBilled
<1>7. (ServedAmong(r.attempts) # {} /\ ~IsBilled(r))
        <=> (i.reached /\ calls[Len(calls)].told = <<>>)
  BY <1>2, <1>4, <1>5, <1>6 DEF DueAs
<1> QED BY <1>7 DEF i, r

\* The charge and the cost of what was served follow from the tokens and the rates
\* beside them.
LEMMA RowIsExplained == ASSUME AttemptsInv PROVE RowExplained
<1> SUFFICES ASSUME booked # <<>>
             PROVE  /\ booked[1].cost = Cost(booked[1].sells, booked[1].usage)
                    /\ IsBilled(booked[1]) /\ ServedAmong(booked[1].attempts) # {} =>
                         booked[1].basisCost = Cost(booked[1].basis[1], booked[1].usage)
  <2>1. CASE booked = <<>>
    BY <2>1 DEF RowExplained
  <2>2. CASE booked # <<>>
    BY <2>2, BookedIs DEF RowExplained
  <2> QED BY <2>1, <2>2
<1> DEFINE i == intent[1]  r == booked[1]
<1>1. PICK lacks \in Lacking : (lacks = "written" => NoWrites(i)) /\ r = RowOf(i, lacks)
  BY BookedIs
<1>2. DueAs(i)
  BY BookedIs
<1>3. /\ r.attempts = RowsRead(i.attempts, lacks) /\ r.usage = Reported(i.usage)
      /\ r.cost = i.cost /\ r.sells = RatesRead(i.sells, lacks)
      /\ \A n \in DOMAIN i.basis : r.basis[n] = RatesRead(i.basis[n], lacks)
  BY <1>1, RowFields
<1>4. ~i.reached => ServedAmong(r.attempts) = {}
  BY <1>2, <1>3, RowKeeps
<1>5. lacks = "written" => i.usage.written = 0
  BY <1>1 DEF NoWrites
<1>6. ASSUME NEW table \in Tables
      PROVE  Cost(RatesRead(table, lacks), r.usage) = Cost(table, i.usage)
  <2>1. IsUsage(i.usage)
    BY <1>2 DEF DueAs
  <2>2. Cost(RatesRead(table, lacks), r.usage) = Cost(RatesRead(table, lacks), i.usage)
    BY <1>3, <2>1, ReportedCost
  <2> HIDE DEF i, r
  <2> QED BY <1>5, <2>1, <2>2, ReadCost
<1>7. r.cost = Cost(r.sells, r.usage)
  BY <1>2, <1>3, <1>6 DEF DueAs
<1>8. ASSUME IsBilled(r), ServedAmong(r.attempts) # {}
      PROVE  r.basisCost = Cost(r.basis[1], r.usage)
  <2> DEFINE last == Len(calls)  c == calls[last]
  <2>1. i.reached
    BY <1>2, <1>4, <1>8 DEF DueAs
  <2>2. last \in 1..Len(calls) /\ r.basisCost = attempts[last].cost
    <3> HIDE DEF i, r
    <3> QED BY <1>1, <1>2, <2>1, BasisOfServed
  <2>3. c.told # <<>>
    <3>1. ServedAmong(r.attempts) # {} /\ ~IsBilled(r) <=> i.reached /\ c.told = <<>>
      BY GapsAreFound, BookedIs DEF GapsFound
    <3> QED BY <1>8, <2>1, <3>1
  <2>4. i.usage = c.told[1] /\ i.basis = <<At(Route[c.rung], i.usage.prompt)>>
    BY <1>2, <2>1, <2>3 DEF DueAs
  <2>5. attempts[last].cost = CostOf(c, c.told[1])
    BY <2>2, <2>3 DEF AttemptsInv, Positions, Faithful
  <2> HIDE DEF last, c, i, r
  <2> DEFINE table == At(Route[c.rung], i.usage.prompt)
  <2>6. r.basisCost = Cost(table, i.usage)
    BY <2>2, <2>4, <2>5 DEF CostOf
  <2>7. i.basis = <<table>>
    BY <2>4
  <2> HIDE DEF table
  <2>8. DOMAIN i.basis = {1} /\ i.basis[1] = table
    BY <2>7
  <2>9. table \in Tables
    <3>1. i.basis = <<>> \/ \E t \in Tables : i.basis = <<t>>
      BY <1>2 DEF DueAs
    <3>2. ASSUME i.basis = <<>> PROVE FALSE
      BY <2>7, <3>2
    <3>3. ASSUME NEW t \in Tables, i.basis = <<t>> PROVE table \in Tables
      BY <2>8, <3>3
    <3> QED BY <3>1, <3>2, <3>3
  <2> QED BY <1>3, <1>6, <2>6, <2>8, <2>9
<1> QED BY <1>7, <1>8

\* Whatever a walk comes to and whichever build settles it, the row it leaves counts the
\* cost of every position once, says when something of it is not known, and explains its
\* own figures (build_attempt, cost_basis, summarize, settle_once).
THEOREM CostsAreBooked ==
    ASSUME AttemptsAssumption
    PROVE  AttemptsSpec => []CostsBooked
<1>1. AttemptsInit => AttemptsInv
  BY AttemptsStart
<1>2. AttemptsInv /\ [AttemptsNext]_attemptVars => AttemptsInv'
  BY AttemptsKept
<1>3. AttemptsInv => CostsBooked
  BY CountsOnce, LossesAreWhole, GapsAreFound, RowIsExplained DEF CostsBooked
<1> QED BY <1>1, <1>2, <1>3, PTL DEF AttemptsSpec
==============================================================================
