----------------------------- MODULE RouteProofs -----------------------------
(***************************************************************************)
(* What the construction and the ordering of a route keep, for every       *)
(* catalog, every set of attached keys and whatever health does meanwhile: *)
(* every rung is one of a candidate's, none is lost or added, and on a     *)
(* routed id the zero-retention ones come first.                           *)
(***************************************************************************)
EXTENDS Route, Sums

-----------------------------------------------------------------------------
(* The rungs of a sequence that are in a set.                              *)

\* g keeps, at each length, what that much of s holds of S.
Keeps(g, s, S) ==
    g = [i \in 0..Len(s) |->
            IF i = 0 THEN <<>>
            ELSE IF s[i] \in S THEN Append(g[i - 1], s[i]) ELSE g[i - 1]]

LEMMA AmongUnfold ==
    ASSUME NEW s, NEW S
    PROVE  Among(s, S) = (CHOOSE g : Keeps(g, s, S))[Len(s)]
  BY DEF Among, Keeps

\* What the recursion says of one position.
LEMMA KeepsAt ==
    ASSUME NEW R, NEW s \in Seq(R), NEW S, NEW g, Keeps(g, s, S)
    PROVE  /\ g[0] = <<>>
           /\ \A i \in 1..Len(s) :
                g[i] = IF s[i] \in S THEN Append(g[i - 1], s[i]) ELSE g[i - 1]
<1>1. Len(s) \in Nat
  OBVIOUS
<1>2. \A i \in 0..Len(s) :
         g[i] = IF i = 0 THEN <<>>
                ELSE IF s[i] \in S THEN Append(g[i - 1], s[i]) ELSE g[i - 1]
  BY DEF Keeps
<1> QED BY <1>1, <1>2

\* The recursion has a solution, built up one position at a time.
LEMMA KeepsSolvable ==
    ASSUME NEW R, NEW s \in Seq(R), NEW S
    PROVE  \E g : Keeps(g, s, S)
<1> DEFINE Upto(g, n) ==
              g = [i \in 0..n |->
                     IF i = 0 THEN <<>>
                     ELSE IF s[i] \in S THEN Append(g[i - 1], s[i])
                     ELSE g[i - 1]]
           G == {n \in Nat : \E g : Upto(g, n)}
<1>1. 0 \in G
  <2> DEFINE h == [i \in 0..0 |-> <<>>]
  <2>1. Upto(h, 0)
    OBVIOUS
  <2> QED BY <2>1
<1>2. \A n \in Nat : n \in G => n + 1 \in G
  <2> SUFFICES ASSUME NEW n \in Nat, n \in G PROVE \E h : Upto(h, n + 1)
    <3> HIDE DEF Upto
    <3> QED OBVIOUS
  <2>0. PICK g : Upto(g, n)
    <3> HIDE DEF Upto
    <3> QED OBVIOUS
  <2> DEFINE h == [i \in 0..n + 1 |->
                     IF i = n + 1
                     THEN IF s[i] \in S THEN Append(g[n], s[i]) ELSE g[n]
                     ELSE g[i]]
  <2>1. \A i \in 0..n : h[i] = g[i]
    OBVIOUS
  <2>g. \A i \in 0..n :
           g[i] = IF i = 0 THEN <<>>
                  ELSE IF s[i] \in S THEN Append(g[i - 1], s[i]) ELSE g[i - 1]
    BY <2>0
  <2>2. \A i \in 0..n + 1 :
           h[i] = IF i = 0 THEN <<>>
                  ELSE IF s[i] \in S THEN Append(h[i - 1], s[i]) ELSE h[i - 1]
    <3> SUFFICES ASSUME NEW i \in 0..n + 1
                 PROVE  h[i] = IF i = 0 THEN <<>>
                               ELSE IF s[i] \in S THEN Append(h[i - 1], s[i])
                               ELSE h[i - 1]
      OBVIOUS
    <3>1. CASE i = n + 1
      <4>1. h[i - 1] = g[n] /\ i # 0
        BY <2>1, <3>1
      <4> QED BY <3>1, <4>1
    <3>2. CASE i # n + 1
      <4>1. i \in 0..n /\ h[i] = g[i]
        BY <2>1, <3>2
      <4>2. g[i] = IF i = 0 THEN <<>>
                   ELSE IF s[i] \in S THEN Append(g[i - 1], s[i]) ELSE g[i - 1]
        BY <4>1, <2>g
      <4>3. i # 0 => i - 1 \in 0..n /\ h[i - 1] = g[i - 1]
        BY <2>1, <4>1
      <4> QED BY <4>1, <4>2, <4>3
    <3> QED BY <3>1, <3>2
  <2>3. Upto(h, n + 1)
    BY <2>2
  <2> HIDE DEF h, Upto
  <2> QED BY <2>3
<1>3. Len(s) \in Nat
  OBVIOUS
<1>4. Len(s) \in G
  <2> HIDE DEF G
  <2> QED BY <1>1, <1>2, <1>3, Induction
<1> QED BY <1>4 DEF Keeps

\* What is kept is of the sequence and of the set.
LEMMA AmongTyped ==
    ASSUME NEW R, NEW s \in Seq(R), NEW S
    PROVE  Among(s, S) \in Seq(R \cap S)
<1> DEFINE g == CHOOSE f : Keeps(f, s, S)
           G == {n \in Nat : n <= Len(s) => g[n] \in Seq(R \cap S)}
<1>1. Keeps(g, s, S)
  BY KeepsSolvable
<1>2. /\ g[0] = <<>>
      /\ \A i \in 1..Len(s) :
           g[i] = IF s[i] \in S THEN Append(g[i - 1], s[i]) ELSE g[i - 1]
  <2> HIDE DEF g
  <2> QED BY <1>1, KeepsAt
<1> HIDE DEF g
<1>3. 0 \in G
  <2>1. <<>> \in Seq(R \cap S)
    OBVIOUS
  <2>2. g[0] \in Seq(R \cap S)
    BY <1>2, <2>1
  <2> QED BY <2>2
<1>4. \A n \in Nat : n \in G => n + 1 \in G
  <2> SUFFICES ASSUME NEW n \in Nat, n \in G, n + 1 <= Len(s)
               PROVE  g[n + 1] \in Seq(R \cap S)
    OBVIOUS
  <2>1. n + 1 \in 1..Len(s) /\ g[n] \in Seq(R \cap S)
    OBVIOUS
  <2>2. s[n + 1] \in R
    BY <2>1
  <2>3. g[n + 1] = IF s[n + 1] \in S THEN Append(g[n], s[n + 1]) ELSE g[n]
    <3>1. g[n + 1] = IF s[n + 1] \in S THEN Append(g[n + 1 - 1], s[n + 1])
                     ELSE g[n + 1 - 1]
      BY <1>2, <2>1
    <3>2. n + 1 - 1 = n
      OBVIOUS
    <3> QED BY <3>1, <3>2
  <2> QED BY <2>1, <2>2, <2>3
<1>5. Len(s) \in G
  <2>1. Len(s) \in Nat
    OBVIOUS
  <2> HIDE DEF G
  <2> QED BY <1>3, <1>4, <2>1, Induction
<1>6. Among(s, S) = g[Len(s)]
  BY AmongUnfold DEF g
<1> QED BY <1>5, <1>6

\* Two sets that divide a sequence divide its length.
LEMMA AmongSplits ==
    ASSUME NEW R, NEW s \in Seq(R), NEW S, NEW T,
           \A i \in 1..Len(s) : s[i] \in S <=> s[i] \notin T
    PROVE  Len(Among(s, S)) + Len(Among(s, T)) = Len(s)
<1> DEFINE g == CHOOSE f : Keeps(f, s, S)
           h == CHOOSE f : Keeps(f, s, T)
           Good(n) == /\ g[n] \in Seq(R) /\ h[n] \in Seq(R)
                      /\ Len(g[n]) + Len(h[n]) = n
           G == {n \in Nat : n <= Len(s) => Good(n)}
<1>1. Keeps(g, s, S) /\ Keeps(h, s, T)
  BY KeepsSolvable
<1> HIDE DEF g, h
<1>2. /\ g[0] = <<>> /\ h[0] = <<>>
      /\ \A i \in 1..Len(s) :
           /\ g[i] = IF s[i] \in S THEN Append(g[i - 1], s[i]) ELSE g[i - 1]
           /\ h[i] = IF s[i] \in T THEN Append(h[i - 1], s[i]) ELSE h[i - 1]
  BY <1>1, KeepsAt
<1>3. 0 \in G
  <2>1. <<>> \in Seq(R) /\ Len(<<>>) = 0
    OBVIOUS
  <2>2. Good(0)
    BY <1>2, <2>1
  <2> HIDE DEF Good
  <2> QED BY <2>2
<1>4. \A n \in Nat : n \in G => n + 1 \in G
  <2> SUFFICES ASSUME NEW n \in Nat, n \in G, n + 1 <= Len(s)
               PROVE  Good(n + 1)
    <3> HIDE DEF Good
    <3> QED OBVIOUS
  <2>a. Good(n)
    <3>1. n <= Len(s)
      OBVIOUS
    <3> HIDE DEF Good
    <3> QED BY <3>1
  <2>1. /\ n + 1 \in 1..Len(s) /\ n + 1 - 1 = n
        /\ g[n] \in Seq(R) /\ h[n] \in Seq(R) /\ Len(g[n]) + Len(h[n]) = n
    <3>1. n + 1 \in 1..Len(s) /\ n + 1 - 1 = n
      OBVIOUS
    <3> QED BY <2>a, <3>1
  <2>b. Len(g[n]) \in Nat /\ Len(h[n]) \in Nat
    BY <2>1
  <2>c. Len(g[n]) + Len(h[n]) = n
    BY <2>1
  <2>2. s[n + 1] \in R
    BY <2>1
  <2>3. /\ g[n + 1] = IF s[n + 1] \in S THEN Append(g[n], s[n + 1]) ELSE g[n]
        /\ h[n + 1] = IF s[n + 1] \in T THEN Append(h[n], s[n + 1]) ELSE h[n]
    BY <1>2, <2>1
  <2>4. CASE s[n + 1] \in S
    <3>1. s[n + 1] \notin T
      BY <2>1, <2>4
    <3>2. g[n + 1] = Append(g[n], s[n + 1]) /\ h[n + 1] = h[n]
      BY <2>3, <2>4, <3>1
    <3>3. Len(g[n + 1]) = Len(g[n]) + 1 /\ g[n + 1] \in Seq(R)
      BY <2>1, <2>2, <3>2
    <3>4. Len(h[n + 1]) = Len(h[n]) /\ h[n + 1] \in Seq(R)
      BY <2>1, <3>2
    <3>5. Len(g[n + 1]) + Len(h[n + 1]) = n + 1
      <4> DEFINE a == Len(g[n])  b == Len(h[n])  a1 == Len(g[n + 1])
                 b1 == Len(h[n + 1])
      <4>1. a \in Nat /\ b \in Nat /\ a + b = n /\ n \in Nat
        BY <2>b, <2>c
      <4>2. a1 = a + 1 /\ b1 = b
        BY <3>3, <3>4
      <4> HIDE DEF a, b, a1, b1
      <4>3. a1 + b1 = n + 1
        BY <4>1, <4>2
      <4> QED BY <4>3 DEF a1, b1
    <3> QED BY <3>3, <3>4, <3>5
  <2>5. CASE s[n + 1] \notin S
    <3>1. s[n + 1] \in T
      BY <2>1, <2>5
    <3>2. h[n + 1] = Append(h[n], s[n + 1]) /\ g[n + 1] = g[n]
      BY <2>3, <2>5, <3>1
    <3>3. Len(h[n + 1]) = Len(h[n]) + 1 /\ h[n + 1] \in Seq(R)
      BY <2>1, <2>2, <3>2
    <3>4. Len(g[n + 1]) = Len(g[n]) /\ g[n + 1] \in Seq(R)
      BY <2>1, <3>2
    <3>5. Len(g[n + 1]) + Len(h[n + 1]) = n + 1
      <4> DEFINE a == Len(g[n])  b == Len(h[n])  a1 == Len(g[n + 1])
                 b1 == Len(h[n + 1])
      <4>1. a \in Nat /\ b \in Nat /\ a + b = n /\ n \in Nat
        BY <2>b, <2>c
      <4>2. a1 = a /\ b1 = b + 1
        BY <3>3, <3>4
      <4> HIDE DEF a, b, a1, b1
      <4>3. a1 + b1 = n + 1
        BY <4>1, <4>2
      <4> QED BY <4>3 DEF a1, b1
    <3> QED BY <3>3, <3>4, <3>5
  <2> QED BY <2>4, <2>5
<1>5. Len(s) \in G
  <2>1. Len(s) \in Nat
    OBVIOUS
  <2> HIDE DEF G
  <2> QED BY <1>3, <1>4, <2>1, Induction
<1>g. Good(Len(s))
  <2>1. Len(s) \in Nat /\ Len(s) <= Len(s)
    OBVIOUS
  <2> HIDE DEF Good
  <2> QED BY <1>5, <2>1
<1>6. Among(s, S) = g[Len(s)] /\ Among(s, T) = h[Len(s)]
  BY AmongUnfold DEF g, h
<1> QED BY <1>g, <1>6

\* A stable partition loses nothing and puts what is in the set first.
LEMMA Partitioned ==
    ASSUME NEW R, NEW s \in Seq(R), NEW S
    PROVE  LET t == FirstThose(s, S) IN
           /\ t \in Seq(R) /\ Len(t) = Len(s)
           /\ \A i, j \in 1..Len(t) : i < j /\ t[j] \in S => t[i] \in S
<1> DEFINE T == Range(s) \ S
           a == Among(s, S)
           b == Among(s, T)
           t == a \o b
<1>1. a \in Seq(R \cap S) /\ b \in Seq(R \cap T)
  BY AmongTyped
<1>2. Len(a) + Len(b) = Len(s)
  <2>1. \A i \in 1..Len(s) : s[i] \in S <=> s[i] \notin T
    <3> SUFFICES ASSUME NEW i \in 1..Len(s) PROVE s[i] \in Range(s)
      OBVIOUS
    <3> QED BY DEF Range
  <2> QED BY <2>1, AmongSplits
<1>3. FirstThose(s, S) = t
  BY DEF FirstThose
<1>4. T \cap S = {}
  OBVIOUS
<1> HIDE DEF T, a, b
<1>5. /\ a \in Seq(R) /\ b \in Seq(R)
      /\ \A i \in 1..Len(a) : a[i] \in S
      /\ \A i \in 1..Len(b) : b[i] \notin S
  BY <1>1, <1>4
<1>6. t \in Seq(R) /\ Len(t) = Len(a) + Len(b)
  BY <1>5
<1>7. \A i \in 1..Len(t) : t[i] = IF i <= Len(a) THEN a[i] ELSE b[i - Len(a)]
  BY <1>5
<1>8. \A i, j \in 1..Len(t) : i < j /\ t[j] \in S => t[i] \in S
  <2> SUFFICES ASSUME NEW i \in 1..Len(t), NEW j \in 1..Len(t), i < j, t[j] \in S
               PROVE  t[i] \in S
    OBVIOUS
  <2>1. Len(a) \in Nat /\ Len(b) \in Nat
    BY <1>5
  <2>2. j <= Len(a)
    <3> SUFFICES ASSUME ~(j <= Len(a)) PROVE FALSE
      OBVIOUS
    <3> HIDE DEF t
    <3>1. j - Len(a) \in 1..Len(b)
      BY <1>6, <2>1
    <3>2. t[j] = b[j - Len(a)]
      BY <1>7
    <3> QED BY <1>5, <3>1, <3>2
  <2> HIDE DEF t
  <2>3. i \in 1..Len(a)
    BY <2>1, <2>2
  <2>4. t[i] = a[i]
    BY <1>7, <2>3, <2>1
  <2> QED BY <1>5, <2>3, <2>4
<1> QED BY <1>2, <1>3, <1>6, <1>8

-----------------------------------------------------------------------------
(* What a stable partition keeps of an order.                              *)

\* a stands somewhere ahead of b.
Before(s, a, b) == \E p, q \in 1..Len(s) : p < q /\ s[p] = a /\ s[q] = b

\* One more at the end of what is kept.
LEMMA OneMoreKept ==
    ASSUME NEW R, NEW t \in Seq(R), NEW x \in R
    PROVE  /\ Append(t, x) \in Seq(R) /\ Len(Append(t, x)) = Len(t) + 1
           /\ Append(t, x)[Len(t) + 1] = x
           /\ \A i \in 1..Len(t) : Append(t, x)[i] = t[i]
  OBVIOUS

\* t is all of s that is in S, in its order.
Picks(t, s, S) ==
    /\ \A i, j \in 1..Len(t) : i < j => Before(s, t[i], t[j])
    /\ \A p \in 1..Len(s) : s[p] \in S => \E i \in 1..Len(t) : t[i] = s[p]
    /\ \A i \in 1..Len(t) : \E p \in 1..Len(s) : t[i] = s[p]

\* What is kept is all that is in the set, in its order.
LEMMA AmongOrdered ==
    ASSUME NEW R, NEW s \in Seq(R), NEW S
    PROVE  Picks(Among(s, S), s, S)
<1> DEFINE g == CHOOSE f : Keeps(f, s, S)
           Ahead(n) == \A i, j \in 1..Len(g[n]) :
                          i < j => \E p, q \in 1..n : p < q /\ s[p] = g[n][i] /\ s[q] = g[n][j]
           From(n) == \A i \in 1..Len(g[n]) : \E p \in 1..n : g[n][i] = s[p]
           All(n) == \A p \in 1..n : s[p] \in S => \E i \in 1..Len(g[n]) : g[n][i] = s[p]
           Good(n) == g[n] \in Seq(R) /\ Ahead(n) /\ From(n) /\ All(n)
           G == {n \in Nat : n <= Len(s) => Good(n)}
<1>0. Len(s) \in Nat
  OBVIOUS
<1>1. Keeps(g, s, S)
  BY KeepsSolvable
<1>a. Among(s, S) = g[Len(s)]
  BY AmongUnfold
<1> HIDE DEF g
<1>2. /\ g[0] = <<>>
      /\ \A i \in 1..Len(s) :
           g[i] = IF s[i] \in S THEN Append(g[i - 1], s[i]) ELSE g[i - 1]
  BY <1>1, KeepsAt
<1>3. 0 \in G
  <2>1. <<>> \in Seq(R) /\ Len(<<>>) = 0
    OBVIOUS
  <2>2. g[0] \in Seq(R) /\ Len(g[0]) = 0
    BY <1>2, <2>1
  <2>3. Ahead(0) /\ From(0) /\ All(0)
    BY <2>2
  <2> QED BY <2>2, <2>3
<1>4. \A n \in Nat : n \in G => n + 1 \in G
  <2> SUFFICES ASSUME NEW n \in Nat, n \in G, n + 1 <= Len(s) PROVE Good(n + 1)
    <3> HIDE DEF Good
    <3> QED OBVIOUS
  <2>1. Good(n)
    <3>1. n <= Len(s)
      BY <1>0
    <3> HIDE DEF Good
    <3> QED BY <3>1
  <2>2. n + 1 \in 1..Len(s) /\ n + 1 - 1 = n
    BY <1>0
  <2>3. g[n + 1] = IF s[n + 1] \in S THEN Append(g[n], s[n + 1]) ELSE g[n]
    BY <1>2, <2>2
  <2>4. s[n + 1] \in R
    BY <2>2
  <2> DEFINE a == g[n]
             b == g[n + 1]
             x == s[n + 1]
  <2>5. a \in Seq(R) /\ Len(a) \in Nat
    BY <2>1
  <2>6. CASE x \notin S
    <3>1. b = a
      BY <2>3, <2>6
    <3>2. Ahead(n + 1)
      BY <2>1, <3>1
    <3>3. From(n + 1)
      BY <2>1, <3>1
    <3>4. All(n + 1)
      <4> SUFFICES ASSUME NEW p \in 1..n + 1, s[p] \in S
                   PROVE  \E i \in 1..Len(b) : b[i] = s[p]
        OBVIOUS
      <4>1. p \in 1..n
        BY <2>6
      <4> QED BY <2>1, <3>1, <4>1
    <3> QED BY <2>5, <3>1, <3>2, <3>3, <3>4
  <2>7. CASE x \in S
    <3>1. b = Append(a, x)
      BY <2>3, <2>7
    <3>2. /\ b \in Seq(R) /\ Len(b) = Len(a) + 1 /\ b[Len(a) + 1] = x
          /\ \A i \in 1..Len(a) : b[i] = a[i]
      <4> HIDE DEF a, b, x
      <4>1. x \in R
        BY <2>4 DEF x
      <4> QED BY <2>5, <3>1, <4>1, OneMoreKept
    <3>3. /\ \A i \in 1..Len(a) : \E p \in 1..n : a[i] = s[p]
          /\ \A i, j \in 1..Len(a) :
               i < j => \E p, q \in 1..n : p < q /\ s[p] = a[i] /\ s[q] = a[j]
          /\ \A p \in 1..n : s[p] \in S => \E i \in 1..Len(a) : a[i] = s[p]
      BY <2>1
    <3>4. \A i \in 1..Len(b) : i \in 1..Len(a) \/ i = Len(a) + 1
      <4> HIDE DEF a, b
      <4> QED BY <2>5, <3>2
    <3>x. x = s[n + 1]
      OBVIOUS
    <3> HIDE DEF a, b, x
    <3>5. \A i, j \in 1..Len(b) :
             i < j => \E p, q \in 1..n + 1 : p < q /\ s[p] = b[i] /\ s[q] = b[j]
      <4> SUFFICES ASSUME NEW i \in 1..Len(b), NEW j \in 1..Len(b), i < j
                   PROVE  \E p, q \in 1..n + 1 : p < q /\ s[p] = b[i] /\ s[q] = b[j]
        OBVIOUS
      <4>1. i \in 1..Len(a)
        BY <2>5, <3>2, <3>4
      <4>2. CASE j \in 1..Len(a)
        <5>1. PICK p \in 1..n, q \in 1..n : p < q /\ s[p] = a[i] /\ s[q] = a[j]
          BY <3>3, <4>1, <4>2
        <5> QED BY <3>2, <4>1, <4>2, <5>1
      <4>3. CASE j = Len(a) + 1
        <5>1. PICK p \in 1..n : a[i] = s[p]
          BY <3>3, <4>1
        <5>2. p \in 1..n + 1 /\ n + 1 \in 1..n + 1 /\ p < n + 1
          OBVIOUS
        <5>3. s[p] = b[i] /\ s[n + 1] = b[j]
          BY <3>2, <3>x, <4>1, <4>3, <5>1
        <5> QED BY <5>2, <5>3
      <4> QED BY <3>4, <4>2, <4>3
    <3>6. \A i \in 1..Len(b) : \E p \in 1..n + 1 : b[i] = s[p]
      <4> SUFFICES ASSUME NEW i \in 1..Len(b) PROVE \E p \in 1..n + 1 : b[i] = s[p]
        OBVIOUS
      <4>1. CASE i \in 1..Len(a)
        <5>1. PICK p \in 1..n : a[i] = s[p]
          BY <3>3, <4>1
        <5> QED BY <3>2, <4>1, <5>1
      <4>2. CASE i = Len(a) + 1
        <5>1. b[i] = s[n + 1]
          BY <3>2, <3>x, <4>2
        <5> QED BY <5>1
      <4> QED BY <3>4, <4>1, <4>2
    <3>7. \A p \in 1..n + 1 : s[p] \in S => \E i \in 1..Len(b) : b[i] = s[p]
      <4> SUFFICES ASSUME NEW p \in 1..n + 1, s[p] \in S
                   PROVE  \E i \in 1..Len(b) : b[i] = s[p]
        OBVIOUS
      <4>1. CASE p \in 1..n
        <5>1. PICK i \in 1..Len(a) : a[i] = s[p]
          BY <3>3, <4>1
        <5>2. i \in 1..Len(b) /\ b[i] = a[i]
          BY <2>5, <3>2
        <5> QED BY <5>1, <5>2
      <4>2. CASE p = n + 1
        <5>1. Len(a) + 1 \in 1..Len(b) /\ b[Len(a) + 1] = s[p]
          BY <2>5, <3>2, <3>x, <4>2
        <5> QED BY <5>1
      <4> QED BY <4>1, <4>2
    <3> QED BY <3>2, <3>5, <3>6, <3>7 DEF b
  <2> QED BY <2>6, <2>7
<1>5. Good(Len(s))
  <2>1. Len(s) \in G
    <3> HIDE DEF G
    <3> QED BY <1>0, <1>3, <1>4, Induction
  <2> HIDE DEF Good
  <2> QED BY <1>0, <2>1
<1>6. Ahead(Len(s)) /\ From(Len(s)) /\ All(Len(s))
  <2> HIDE DEF g, Ahead, From, All, G
  <2> QED BY <1>5
<1>7. Picks(g[Len(s)], s, S)
  <2> HIDE DEF g, G
  <2>1. \A i, j \in 1..Len(g[Len(s)]) : i < j => Before(s, g[Len(s)][i], g[Len(s)][j])
    BY <1>6 DEF Before
  <2> QED BY <1>6, <2>1, Zenon DEF Picks
<1> HIDE DEF g, Good, G
<1> QED BY <1>a, <1>7

\* A sequence ordered by a relation.
Ranked(s, r) == \A i, j \in 1..Len(s) : i < j => <<s[i], s[j]>> \in r

\* The relation with what is in S ahead of what is not.
Finer(r, S, R) ==
    {x \in R \X R : (x[1] \in S /\ x[2] \notin S) \/ ((x[1] \in S <=> x[2] \in S) /\ x \in r)}

\* What is in S and then what is not, each in its order.
LEMMA JoinedOrder ==
    ASSUME NEW R, NEW S, NEW r,
           NEW a \in Seq(R), NEW b \in Seq(R), Ranked(a, r), Ranked(b, r),
           \A i \in 1..Len(a) : a[i] \in S, \A i \in 1..Len(b) : b[i] \notin S
    PROVE  /\ a \o b \in Seq(R) /\ Len(a \o b) = Len(a) + Len(b)
           /\ \A x : x \in Range(a \o b) <=> x \in Range(a) \/ x \in Range(b)
           /\ Ranked(a \o b, Finer(r, S, R))
<1> DEFINE t == a \o b
<1>1. t \in Seq(R) /\ Len(t) = Len(a) + Len(b)
  OBVIOUS
<1>2. \A i \in 1..Len(a) : a[i] \in R
  OBVIOUS
<1>3. \A i \in 1..Len(b) : b[i] \in R
  OBVIOUS
<1>4. /\ Len(a) \in Nat /\ Len(b) \in Nat /\ Len(t) = Len(a) + Len(b)
      /\ \A i \in 1..Len(a) : t[i] = a[i]
      /\ \A i \in 1..Len(b) : t[Len(a) + i] = b[i]
  OBVIOUS
<1>5. DOMAIN t = 1..Len(t) /\ DOMAIN a = 1..Len(a) /\ DOMAIN b = 1..Len(b)
  BY <1>1
<1> HIDE DEF t
<1>6. \A k \in 1..Len(t) : k \in 1..Len(a) \/ \E i \in 1..Len(b) : k = Len(a) + i
  <2> SUFFICES ASSUME NEW k \in 1..Len(t), k \notin 1..Len(a)
               PROVE  \E i \in 1..Len(b) : k = Len(a) + i
    OBVIOUS
  <2>1. k - Len(a) \in 1..Len(b) /\ k = Len(a) + (k - Len(a))
    BY <1>4
  <2> QED BY <2>1
<1>7. \A x : x \in Range(t) <=> x \in Range(a) \/ x \in Range(b)
  <2>1. /\ \A x : x \in Range(t) <=> \E k \in 1..Len(t) : x = t[k]
        /\ \A x : x \in Range(a) <=> \E k \in 1..Len(a) : x = a[k]
        /\ \A x : x \in Range(b) <=> \E k \in 1..Len(b) : x = b[k]
    BY <1>5 DEF Range
  <2>2. /\ \A i \in 1..Len(a) : i \in 1..Len(t)
        /\ \A i \in 1..Len(b) : Len(a) + i \in 1..Len(t)
    BY <1>4
  <2>3. ASSUME NEW k \in 1..Len(t) PROVE t[k] \in Range(a) \/ t[k] \in Range(b)
    <3>1. CASE k \in 1..Len(a)
      BY <1>4, <2>1, <3>1
    <3>2. CASE \E i \in 1..Len(b) : k = Len(a) + i
      <4>1. PICK i \in 1..Len(b) : k = Len(a) + i
        BY <3>2
      <4> QED BY <1>4, <2>1, <4>1
    <3> QED BY <1>6, <3>1, <3>2
  <2>4. \A i \in 1..Len(a) : a[i] \in Range(t)
    BY <1>4, <2>1, <2>2
  <2>5. \A i \in 1..Len(b) : b[i] \in Range(t)
    BY <1>4, <2>1, <2>2
  <2> QED BY <2>1, <2>3, <2>4, <2>5
<1>8. ASSUME NEW k \in 1..Len(t), NEW m \in 1..Len(t), k < m
      PROVE  <<t[k], t[m]>> \in Finer(r, S, R)
  <2>1. \A x, y \in R :
           ((x \in S /\ y \notin S) \/ ((x \in S <=> y \in S) /\ <<x, y>> \in r))
             => <<x, y>> \in Finer(r, S, R)
    BY DEF Finer
  <2>2. CASE k \in 1..Len(a) /\ m \in 1..Len(a)
    <3>1. <<a[k], a[m]>> \in r
      BY <1>8, <2>2 DEF Ranked
    <3> QED BY <1>2, <1>4, <2>1, <2>2, <3>1
  <2>3. CASE k \in 1..Len(a) /\ m \notin 1..Len(a)
    <3>1. PICK j \in 1..Len(b) : m = Len(a) + j
      BY <1>6, <2>3
    <3> QED BY <1>2, <1>3, <1>4, <2>1, <2>3, <3>1
  <2>4. CASE k \notin 1..Len(a)
    <3>1. PICK i \in 1..Len(b) : k = Len(a) + i
      BY <1>6, <2>4
    <3>2. m \notin 1..Len(a)
      BY <1>4, <1>8, <2>4
    <3>3. PICK j \in 1..Len(b) : m = Len(a) + j
      BY <1>6, <3>2
    <3>4. i < j
      BY <1>4, <1>8, <3>1, <3>3
    <3>5. <<b[i], b[j]>> \in r
      BY <3>4 DEF Ranked
    <3> QED BY <1>3, <1>4, <2>1, <3>1, <3>3, <3>5
  <2> QED BY <2>2, <2>3, <2>4
<1>9. Ranked(t, Finer(r, S, R))
  BY <1>8 DEF Ranked
<1> QED BY <1>1, <1>7, <1>9 DEF t

\* What is in the set is kept in the order it had.
LEMMA AmongSorted ==
    ASSUME NEW R, NEW s \in Seq(R), NEW S, NEW r, Ranked(s, r)
    PROVE  /\ Among(s, S) \in Seq(R) /\ Ranked(Among(s, S), r)
           /\ \A i \in 1..Len(Among(s, S)) : Among(s, S)[i] \in S
           /\ \A x : x \in Range(Among(s, S)) <=> x \in Range(s) /\ x \in S
<1> DEFINE a == Among(s, S)
<1>1. a \in Seq(R \cap S)
  BY AmongTyped
<1>2. Picks(a, s, S)
  BY AmongOrdered
<1> HIDE DEF a
<1>3. a \in Seq(R) /\ \A i \in 1..Len(a) : a[i] \in S
  BY <1>1
<1>4. Ranked(a, r)
  <2> SUFFICES ASSUME NEW i \in 1..Len(a), NEW j \in 1..Len(a), i < j
               PROVE  <<a[i], a[j]>> \in r
    BY DEF Ranked
  <2>1. Before(s, a[i], a[j])
    BY <1>2 DEF Picks
  <2>2. PICK m \in 1..Len(s), n \in 1..Len(s) : m < n /\ s[m] = a[i] /\ s[n] = a[j]
    BY <2>1 DEF Before
  <2>3. <<s[m], s[n]>> \in r
    BY <2>2 DEF Ranked
  <2> QED BY <2>2, <2>3
<1>5. \A x : x \in Range(a) <=> x \in Range(s) /\ x \in S
  <2>1. /\ \A x : x \in Range(a) <=> \E k \in 1..Len(a) : x = a[k]
        /\ \A x : x \in Range(s) <=> \E k \in 1..Len(s) : x = s[k]
    <3>1. DOMAIN a = 1..Len(a) /\ DOMAIN s = 1..Len(s)
      BY <1>3
    <3> QED BY <3>1 DEF Range
  <2>2. \A i \in 1..Len(a) : a[i] \in Range(s)
    BY <1>2, <2>1 DEF Picks
  <2>3. \A p \in 1..Len(s) : s[p] \in S => s[p] \in Range(a)
    BY <1>2, <2>1 DEF Picks
  <2> QED BY <1>3, <2>1, <2>2, <2>3
<1> QED BY <1>3, <1>4, <1>5 DEF a

\* A stable partition of an order keeps all of it, and is ordered by the set first
\* and what it was ordered by next.
LEMMA PartitionOrdered ==
    ASSUME NEW R, NEW s \in Seq(R), NEW S, NEW r, Ranked(s, r)
    PROVE  /\ FirstThose(s, S) \in Seq(R) /\ Len(FirstThose(s, S)) = Len(s)
           /\ Range(FirstThose(s, S)) = Range(s)
           /\ Ranked(FirstThose(s, S), Finer(r, S, R))
<1> DEFINE T == Range(s) \ S
           a == Among(s, S)
           b == Among(s, T)
<1>1. FirstThose(s, S) \in Seq(R) /\ Len(FirstThose(s, S)) = Len(s)
  BY Partitioned
<1>2. /\ a \in Seq(R) /\ Ranked(a, r) /\ \A i \in 1..Len(a) : a[i] \in S
      /\ \A x : x \in Range(a) <=> x \in Range(s) /\ x \in S
  BY AmongSorted
<1>3. /\ b \in Seq(R) /\ Ranked(b, r) /\ \A i \in 1..Len(b) : b[i] \in T
      /\ \A x : x \in Range(b) <=> x \in Range(s) /\ x \in T
  BY AmongSorted
<1>4. \A i \in 1..Len(b) : b[i] \notin S
  BY <1>3
<1>5. \A x : x \in T <=> x \in Range(s) /\ x \notin S
  OBVIOUS
<1>6. FirstThose(s, S) = a \o b
  BY DEF FirstThose
<1> HIDE DEF a, b, T
<1>7. /\ \A x : x \in Range(a \o b) <=> x \in Range(a) \/ x \in Range(b)
      /\ Ranked(a \o b, Finer(r, S, R))
  BY <1>2, <1>3, <1>4, JoinedOrder
<1>8. Range(a \o b) = Range(s)
  <2>1. \A x : x \in Range(a \o b) <=> x \in Range(s)
    BY <1>2, <1>3, <1>5, <1>7, Zenon
  <2> QED BY <2>1
<1> QED BY <1>1, <1>6, <1>7, <1>8

-----------------------------------------------------------------------------
(* What is built.                                                          *)

\* g joins, at each length, that many of the sequences.
Joins(g, ss, n) ==
    g = [i \in 1..n |-> IF i = 1 THEN ss[i] ELSE g[i - 1] \o ss[i]]

\* Sequences joined end to end are made of what they are made of.
LEMMA Flattened ==
    ASSUME NEW R, NEW ss \in Seq(Seq(R))
    PROVE  FlattenSeq(ss) \in Seq(R)
<1> DEFINE N == Len(ss)
           G == {n \in Nat : \E g : Joins(g, ss, n)}
           k == CHOOSE f : Joins(f, ss, N)
           H == {n \in Nat : n + 1 <= N => k[n + 1] \in Seq(R)}
<1>1. N \in Nat /\ \A i \in 1..N : ss[i] \in Seq(R)
  OBVIOUS
<1> SUFFICES ASSUME N # 0 PROVE FlattenSeq(ss) \in Seq(R)
  <2>1. CASE N = 0
    <3>1. FlattenSeq(ss) = ss /\ ss = <<>>
      BY <2>1 DEF FlattenSeq
    <3>2. <<>> \in Seq(R)
      OBVIOUS
    <3> QED BY <3>1, <3>2
  <2> QED BY <2>1
<1>2. FlattenSeq(ss) = k[N]
  BY DEF FlattenSeq, Joins
<1> HIDE DEF N
<1>3. 0 \in G
  <2> DEFINE g == [i \in 1..0 |-> IF i = 1 THEN ss[i] ELSE <<>>]
  <2>1. Joins(g, ss, 0)
    BY DEF Joins
  <2> HIDE DEF g
  <2> QED BY <2>1
<1>4. \A n \in Nat : n \in G => n + 1 \in G
  <2> SUFFICES ASSUME NEW n \in Nat, NEW g, Joins(g, ss, n)
               PROVE  \E h : Joins(h, ss, n + 1)
    OBVIOUS
  <2> DEFINE h == [i \in 1..n + 1 |->
                     IF i = n + 1 THEN IF i = 1 THEN ss[i] ELSE g[n] \o ss[i]
                     ELSE g[i]]
  <2>1. \A i \in 1..n : h[i] = g[i]
    OBVIOUS
  <2>2. \A i \in 1..n : g[i] = IF i = 1 THEN ss[i] ELSE g[i - 1] \o ss[i]
    BY DEF Joins
  <2>3. \A i \in 1..n + 1 : h[i] = IF i = 1 THEN ss[i] ELSE h[i - 1] \o ss[i]
    <3> SUFFICES ASSUME NEW i \in 1..n + 1
                 PROVE  h[i] = IF i = 1 THEN ss[i] ELSE h[i - 1] \o ss[i]
      OBVIOUS
    <3>1. CASE i = n + 1
      <4>1. h[i] = IF i = 1 THEN ss[i] ELSE g[n] \o ss[i]
        BY <3>1
      <4>2. i # 1 => h[i - 1] = g[n]
        BY <2>1, <3>1
      <4> HIDE DEF h
      <4> QED BY <4>1, <4>2
    <3>2. CASE i # n + 1
      <4>1. i \in 1..n /\ h[i] = g[i]
        BY <2>1, <3>2
      <4>2. i # 1 => i - 1 \in 1..n /\ h[i - 1] = g[i - 1]
        BY <2>1, <4>1
      <4> HIDE DEF h
      <4> QED BY <2>2, <4>1, <4>2
    <3> QED BY <3>1, <3>2
  <2>4. h = [i \in 1..n + 1 |-> h[i]]
    OBVIOUS
  <2> HIDE DEF h
  <2>5. Joins(h, ss, n + 1)
    BY <2>3, <2>4 DEF Joins
  <2> QED BY <2>5
<1>5. N \in G
  <2> HIDE DEF G
  <2> QED BY <1>1, <1>3, <1>4, Induction
<1>6. Joins(k, ss, N)
  BY <1>5
<1> HIDE DEF k
<1>7. \A i \in 1..N : k[i] = IF i = 1 THEN ss[i] ELSE k[i - 1] \o ss[i]
  BY <1>6 DEF Joins
<1>8. 0 \in H
  <2>1. 1 <= N => 1 \in 1..N
    BY <1>1
  <2> QED BY <1>1, <1>7, <2>1
<1>9. \A n \in Nat : n \in H => n + 1 \in H
  <2> SUFFICES ASSUME NEW n \in Nat, n \in H, n + 1 + 1 <= N
               PROVE  k[n + 1 + 1] \in Seq(R)
    OBVIOUS
  <2> DEFINE m == n + 1 + 1
  <2>1. m \in 1..N /\ m # 1 /\ m - 1 = n + 1 /\ n + 1 <= N
    BY <1>1
  <2>2. k[m - 1] \in Seq(R)
    BY <2>1
  <2> HIDE DEF m
  <2>3. k[m] = k[m - 1] \o ss[m] /\ ss[m] \in Seq(R)
    BY <1>1, <1>7, <2>1
  <2>4. k[m] \in Seq(R)
    BY <2>2, <2>3
  <2> QED BY <2>4 DEF m
<1>10. N - 1 \in H
  <2>1. N - 1 \in Nat
    BY <1>1
  <2> HIDE DEF H
  <2> QED BY <1>8, <1>9, <2>1, Induction
<1>11. k[N] \in Seq(R)
  <2>1. N - 1 + 1 = N /\ N <= N
    BY <1>1
  <2> QED BY <1>10, <2>1
<1> QED BY <1>2, <1>11

\* A rung: one of a candidate's, on the customer's own key or in its place only
\* for a provider the customer attached a key for.
Rungs ==
    {r \in [def : 1..Len(Definitions), key : Keys, provider : STRING,
            zero : BOOLEAN, byok : BOOLEAN, twin : BOOLEAN] :
        /\ r.provider = Definitions[r.def].provider
        /\ r.byok \/ r.twin => r.provider \in attached}

LEMMA RungsOfTyped ==
    ASSUME NEW i \in 1..Len(Definitions)
    PROVE  RungsOf(i) \in Seq(Rungs)
<1> DEFINE d == Definitions[i]
           House == [def |-> i, key |-> d.key, provider |-> d.provider,
                     zero |-> d.zero, byok |-> FALSE, twin |-> FALSE]
           Own == [House EXCEPT !.byok = TRUE]
           Twin == [House EXCEPT !.twin = TRUE]
<1>1. d \in [key : Keys, provider : STRING, zero : BOOLEAN]
  <2> DEFINE T == [key : Keys, provider : STRING, zero : BOOLEAN]
  <2>1. Definitions \in Seq(T)
    BY DefinitionsAssumption
  <2> HIDE DEF T
  <2>2. d \in T
    BY <2>1
  <2> QED BY <2>2 DEF T
<1>2. /\ House \in Rungs
      /\ d.provider \in attached => Own \in Rungs /\ Twin \in Rungs
  BY <1>1 DEF Rungs
<1> HIDE DEF House, Own, Twin
<1>3. \/ d.provider \in attached /\ RungsOf(i) \in {<<Own, Twin>>, <<Own>>}
      \/ RungsOf(i) \in {<<House>>, <<>>}
  BY DEF RungsOf, House, Own, Twin
<1>4. \A a \in Rungs, b \in Rungs :
         <<a, b>> \in Seq(Rungs) /\ <<a>> \in Seq(Rungs)
  OBVIOUS
<1>5. <<>> \in Seq(Rungs)
  OBVIOUS
<1> QED BY <1>2, <1>3, <1>4, <1>5

LEMMA BuiltTyped == Built \in Seq(Rungs)
<1> DEFINE ss == [i \in 1..Len(Definitions) |-> RungsOf(i)]
<1>1. Len(Definitions) \in Nat
  BY DefinitionsAssumption
<1>2. ss \in Seq(Seq(Rungs))
  BY <1>1, RungsOfTyped
<1>3. FlattenSeq(ss) \in Seq(Rungs)
  <2> HIDE DEF ss
  <2> QED BY <1>2, Flattened
<1> QED BY <1>3 DEF Built

-----------------------------------------------------------------------------
(* What the ordering keeps.                                                *)

\* The customer's keys do not change while a request is walked, so neither
\* does what is built for it.
LEMMA BuiltStays ==
    attached' = attached => Rungs' = Rungs /\ Built' = Built
<1> SUFFICES ASSUME attached' = attached
             PROVE  Rungs' = Rungs /\ Built' = Built
  OBVIOUS
<1>1. Rungs' = Rungs
  BY DEF Rungs
<1>2. \A i \in 1..Len(Definitions) : RungsOf(i)' = RungsOf(i)
  BY DEF RungsOf
<1>3. [i \in 1..Len(Definitions) |-> RungsOf(i)]'
        = [i \in 1..Len(Definitions) |-> RungsOf(i)]
  BY <1>2
<1> QED BY <1>1, <1>3 DEF Built

\* Every rung looked at is on one of the two sides.
Ranking ==
    /\ route \in Seq(Rungs) /\ sunk \in Seq(Rungs)
    /\ at \in 1..Len(Built) + 1
    /\ Len(route) + Len(sunk) = at - 1

LEMMA RankingStarts == RouteInit => Ranking
<1> SUFFICES ASSUME RouteInit PROVE Ranking
  OBVIOUS
<1>1. route = <<>> /\ sunk = <<>> /\ at = 1
  BY DEF RouteInit
<1>2. Len(Built) \in Nat
  BY BuiltTyped
<1>3. \A R : <<>> \in Seq(R) /\ Len(<<>>) = 0
  OBVIOUS
<1>4. at \in 1..Len(Built) + 1 /\ 0 + 0 = at - 1
  BY <1>1, <1>2
<1> QED BY <1>1, <1>3, <1>4 DEF Ranking

LEMMA Appended ==
    ASSUME NEW R, NEW s \in Seq(R), NEW e \in R
    PROVE  Append(s, e) \in Seq(R) /\ Len(Append(s, e)) = Len(s) + 1
  OBVIOUS

LEMMA RankOneRanks ==
    ASSUME Ranking, RankOne
    PROVE  Ranking' /\ at <= Len(Built) /\ at' = at + 1 /\ Built' = Built
<1>1. Rungs' = Rungs /\ Built' = Built
  BY BuiltStays DEF RankOne
<1>2. at <= Len(Built) /\ at' = at + 1
  BY DEF RankOne
<1>3. Len(Built) \in Nat /\ at \in 1..Len(Built)
  BY <1>2, BuiltTyped DEF Ranking
<1>4. Built[at] \in Rungs
  BY <1>3, BuiltTyped
<1>5. /\ route \in Seq(Rungs) /\ sunk \in Seq(Rungs)
      /\ Len(route) \in Nat /\ Len(sunk) \in Nat
      /\ Len(route) + Len(sunk) = at - 1
  BY DEF Ranking
<1>6. /\ route' \in Seq(Rungs) /\ sunk' \in Seq(Rungs)
      /\ \/ Len(route') = Len(route) + 1 /\ Len(sunk') = Len(sunk)
         \/ Len(route') = Len(route) /\ Len(sunk') = Len(sunk) + 1
  <2>1. \/ sunk' = Append(sunk, Built[at]) /\ route' = route
        \/ route' = Append(route, Built[at]) /\ sunk' = sunk
    BY DEF RankOne
  <2> DEFINE e == Built[at]
  <2>2. /\ Append(sunk, e) \in Seq(Rungs)
        /\ Len(Append(sunk, e)) = Len(sunk) + 1
    BY <1>4, <1>5, Appended
  <2>3. /\ Append(route, e) \in Seq(Rungs)
        /\ Len(Append(route, e)) = Len(route) + 1
    BY <1>4, <1>5, Appended
  <2>4. CASE sunk' = Append(sunk, e) /\ route' = route
    BY <1>5, <2>2, <2>4
  <2>5. CASE route' = Append(route, e) /\ sunk' = sunk
    BY <1>5, <2>3, <2>5
  <2> QED BY <2>1, <2>4, <2>5
<1>7. Len(route') + Len(sunk') = at' - 1
  <2> DEFINE a == Len(route)  b == Len(sunk)  a1 == Len(route')
             b1 == Len(sunk')
  <2>1. /\ a \in Nat /\ b \in Nat /\ a + b = at - 1 /\ at' = at + 1
        /\ at \in Nat
        /\ \/ a1 = a + 1 /\ b1 = b
           \/ a1 = a /\ b1 = b + 1
    BY <1>2, <1>3, <1>5, <1>6
  <2> HIDE DEF a, b, a1, b1
  <2>2. a1 + b1 = at' - 1
    BY <2>1
  <2> QED BY <2>2 DEF a1, b1
<1>8. at' \in 1..Len(Built) + 1
  BY <1>2, <1>3
<1> QED BY <1>1, <1>2, <1>6, <1>7, <1>8 DEF Ranking

\* A walk starts over all of what was built, on a routed id the zero-retention
\* rungs first.
LEMMA WalkStarts ==
    ASSUME Ranking, StartWalk
    PROVE  /\ route' \in Seq(Rungs) /\ Len(route') = Len(Built)
           /\ Len(Built) \in Nat \ {0} /\ at' = 1
           /\ UNCHANGED attached
           /\ Routed => \A i, j \in 1..Len(route') :
                           i < j /\ route'[j].zero => route'[i].zero
<1> DEFINE found == route \o sunk
           able == {rung \in Range(found) : rung.key \notin Unable}
           kind == {rung \in Range(ByAbility) : rung.zero}
<1>1. /\ at > Len(Built) /\ Built # <<>> /\ route' = Ordered /\ at' = 1
      /\ UNCHANGED attached
  BY DEF StartWalk
<1>2. Len(Built) \in Nat \ {0}
  BY <1>1, BuiltTyped
<1>3. found \in Seq(Rungs) /\ Len(found) = Len(Built)
  <2>1. /\ route \in Seq(Rungs) /\ sunk \in Seq(Rungs)
        /\ at \in 1..Len(Built) + 1 /\ Len(route) + Len(sunk) = at - 1
    BY DEF Ranking
  <2>2. found \in Seq(Rungs) /\ Len(found) = Len(route) + Len(sunk)
    BY <2>1
  <2>3. at - 1 = Len(Built)
    BY <1>1, <1>2, <2>1
  <2> QED BY <2>1, <2>2, <2>3
<1>4. ByAbility \in Seq(Rungs) /\ Len(ByAbility) = Len(Built)
  <2>1. ByAbility = FirstThose(found, able)
    BY DEF ByAbility
  <2> HIDE DEF found, able
  <2> QED BY <1>3, <2>1, Partitioned
<1>5. CASE Routed
  <2> DEFINE s == ByAbility
             t == FirstThose(s, kind)
  <2>1. Ordered = t
    BY <1>5 DEF Ordered
  <2>2. t \in Seq(Rungs) /\ Len(t) = Len(s)
    <3> HIDE DEF s, kind
    <3> QED BY <1>4, Partitioned DEF s
  <2>3. s \in Seq(Range(s))
    <3> HIDE DEF s
    <3> QED BY <1>4 DEF Range, s
  <2>4. /\ t \in Seq(Range(s))
        /\ \A i, j \in 1..Len(t) : i < j /\ t[j] \in kind => t[i] \in kind
    <3> HIDE DEF s, kind
    <3> QED BY <2>3, Partitioned
  <2>5. ASSUME NEW i \in 1..Len(t), NEW j \in 1..Len(t), i < j, t[j].zero
        PROVE  t[i].zero
    <3> HIDE DEF t
    <3>1. t[j] \in Range(s)
      BY <2>4
    <3>2. t[j] \in kind
      BY <2>5, <3>1
    <3>3. t[i] \in kind
      BY <2>4, <2>5, <3>2
    <3> QED BY <3>3
  <2> HIDE DEF t, s
  <2> QED BY <1>1, <1>2, <1>4, <2>1, <2>2, <2>5 DEF s
<1>6. CASE ~Routed
  BY <1>1, <1>2, <1>4, <1>6 DEF Ordered
<1> QED BY <1>5, <1>6

-----------------------------------------------------------------------------
(* What the registry keeps.                                                *)

\* An average of zeros and ones, in thousandths, stays between them.
LEMMA Averaged ==
    ASSUME NEW e \in 0..1000
    PROVE  /\ (7 * e) \div 10 \in 0..1000
           /\ 300 + (7 * e) \div 10 \in 0..1000
<1>1. /\ 10 * ((7 * e) \div 10) <= 7 * e
      /\ (7 * e) \div 10 \in Nat
  OBVIOUS
<1> QED BY <1>1

LEMMA ObserveTyped ==
    ASSUME HealthTypeOK, NEW k \in Keys, NEW outcome, Observe(k, outcome)
    PROVE  errorEwma' \in [Keys -> 0..1000] /\ cooling' \subseteq Keys
<1>1. errorEwma \in [Keys -> 0..1000] /\ cooling \subseteq Keys
  BY DEF HealthTypeOK
<1>2. errorEwma[k] \in 0..1000
  BY <1>1
<1> DEFINE d == (7 * errorEwma[k]) \div 10
           v == CASE outcome = "ok" -> d
                  [] outcome \in Failures -> 300 + d
                  [] OTHER -> errorEwma[k]
<1>3. d \in 0..1000 /\ 300 + d \in 0..1000
  <2> DEFINE e == errorEwma[k]
  <2>1. e \in 0..1000
    BY <1>2
  <2> HIDE DEF e
  <2>2. /\ (7 * e) \div 10 \in 0..1000
        /\ 300 + (7 * e) \div 10 \in 0..1000
    BY ONLY <2>1, Averaged
  <2> QED BY <2>2 DEF e
<1>4. v \in 0..1000
  <2> HIDE DEF d
  <2> QED BY <1>2, <1>3
<1>5. errorEwma' = [errorEwma EXCEPT ![k] = v]
  BY DEF Observe
<1>6. cooling' \subseteq Keys
  BY <1>1 DEF Observe
<1> HIDE DEF v
<1> QED BY <1>1, <1>4, <1>5, <1>6

\* Other requests of the process, and time, keep the registry well-formed.
LEMMA OthersTyped ==
    ASSUME HealthTypeOK, OthersObserve \/ CooldownEnds
    PROVE  HealthTypeOK'
<1>1. CASE OthersObserve
  <2>1. PICK k \in Keys, outcome \in {"ok", "rate_limited", "upstream_error"} :
           Observe(k, outcome)
    BY <1>1 DEF OthersObserve
  <2>2. errorEwma' \in [Keys -> 0..1000] /\ cooling' \subseteq Keys
    BY <2>1, ObserveTyped
  <2>3. others' \in 0..MaxOthers
    BY <1>1, OthersAssumption DEF OthersObserve, HealthTypeOK
  <2> QED BY <2>2, <2>3 DEF HealthTypeOK
<1>2. CASE CooldownEnds
  BY <1>2 DEF CooldownEnds, HealthTypeOK
<1> QED BY <1>1, <1>2

LEMMA HealthStarts == HealthInit => HealthTypeOK
  BY OthersAssumption DEF HealthInit, HealthTypeOK

==============================================================================
