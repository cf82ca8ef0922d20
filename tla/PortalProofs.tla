----------------------------- MODULE PortalProofs -----------------------------
(***************************************************************************)
(* The safety properties of SignIn, Keys, KeyCache and Tokens, for any     *)
(* number of people, processes and requests.                               *)
(*                                                                         *)
(* SignIn: a login is worth one session because it is in one place at a    *)
(* time: stored, carried by one callback, or spent on a session            *)
(* (LoginsOnce).  Three statements that see what others committed between  *)
(* them agree on an account because a row's subject is set once (Owned),   *)
(* and the credit is granted once because only the callback that inserted  *)
(* an account holds its grant, and none the operator created (Ungranted).  *)
(*                                                                         *)
(* Keys: a mint fits because whoever has counted holds the user's row.     *)
(*                                                                         *)
(* KeyCache: an entry is bounded by what its row said, or the row has been *)
(* edited since its lookup began (EntriesBounded).                         *)
(*                                                                         *)
(* Tokens: the clocks at the mutex are in order of arrival (Queued), and   *)
(* what was paid for is in the cell for whoever could use it (PaidFor).    *)
(***************************************************************************)
EXTENDS SignIn, Keys, Credentials, FiniteSetTheorems, SequenceTheorems, TLAPS

\* A row of users, and what a callback holds between two statements.
User == [email : Emails, subject : Subjects \cup {NoOne}, granted : Nat,
         provisioned : BOOLEAN]

Known == {"looking", "claiming", "inserting", "granting", "opening"}

KnownFlow == [at : Known, login : Nat, subject : Subjects, email : Emails,
              user : Nat]

Flow == {Idle} \cup [at : {"exchanging"}, login : Nat] \cup KnownFlow

Session == [user : Nat, login : Nat, subject : Subjects, expires : Nat,
            revoked : BOOLEAN]

Typed == /\ now \in Nat
         /\ logins \in Seq(Browsers)
         /\ flows \in [Callbacks -> Flow]
         /\ users \in Seq(User)
         /\ sessions \in Seq(Session)

Busy(f) == flows[f].at # "idle"

LoginsOnce ==
    /\ DOMAIN states \subseteq DOMAIN logins
    /\ \A f \in Callbacks : Busy(f) =>
         /\ flows[f].login \in DOMAIN logins \ DOMAIN states
         /\ \A g \in Callbacks : Busy(g) /\ flows[g].login = flows[f].login => f = g
    /\ \A i \in DOMAIN sessions :
         /\ sessions[i].login \in DOMAIN logins \ DOMAIN states
         /\ \A f \in Callbacks : Busy(f) => flows[f].login # sessions[i].login
         /\ \A j \in DOMAIN sessions :
              sessions[j].login = sessions[i].login => i = j

\* Whoever holds an account holds the one of the subject it verified.
Settled(f) == flows[f].at \in {"granting", "opening"}

Owns(f) == /\ flows[f].user \in DOMAIN users
           /\ users[flows[f].user].subject = flows[f].subject

Owned ==
    /\ \A f \in Callbacks : Settled(f) => Owns(f)
    /\ \A i \in DOMAIN sessions :
         /\ sessions[i].user \in DOMAIN users
         /\ users[sessions[i].user].subject = sessions[i].subject

Ungranted ==
    \A f \in Callbacks : flows[f].at = "granting" =>
        /\ users[flows[f].user].granted = 0
        /\ ~users[flows[f].user].provisioned
        /\ \A g \in Callbacks :
             flows[g].at = "granting" /\ flows[g].user = flows[f].user => f = g

IInv == Typed /\ LoginsOnce /\ Owned /\ Ungranted /\ OneAccount

-----------------------------------------------------------------------------
(* The operators.                                                          *)

\* A callback past its exchange holds a verified subject.
LEMMA KnownFlows ==
    ASSUME Typed, NEW f \in Callbacks, flows[f].at \in Known
    PROVE  flows[f] \in KnownFlow
  BY DEF Typed, Flow, KnownFlow, Known, Idle

\* upsert_user's statements change what a callback knows of its account.
LEMMA ResolvedStep ==
    ASSUME Typed, NEW f \in Callbacks, flows[f].at \in Known, NEW u \in Nat,
           NEW next \in Known, Resolved(f, u, next)
    PROVE  /\ flows' \in [Callbacks -> Flow]
           /\ flows'[f].at = next /\ flows'[f].user = u
           /\ flows'[f].login = flows[f].login
           /\ flows'[f].subject = flows[f].subject
           /\ \A g \in Callbacks \ {f} : flows'[g] = flows[g]
<1>1. flows[f] \in KnownFlow
  BY KnownFlows
<1>2. flows' = [flows EXCEPT ![f] = [flows[f] EXCEPT !.at = next, !.user = u]]
  BY DEF Resolved, Typed
<1>3. flows'[f] = [flows[f] EXCEPT !.at = next, !.user = u]
  BY <1>2 DEF Typed
<1>4. /\ flows'[f] \in KnownFlow
      /\ flows'[f].at = next /\ flows'[f].user = u
      /\ flows'[f].login = flows[f].login
      /\ flows'[f].subject = flows[f].subject
  BY <1>1, <1>3 DEF KnownFlow
<1>5. flows' \in [Callbacks -> Flow]
  BY <1>2, <1>3, <1>4 DEF Typed, Flow
<1> QED BY <1>2, <1>3, <1>4, <1>5 DEF Typed

\* A callback that ends holds nothing.
LEMMA IdleStep ==
    ASSUME Typed, NEW f \in Callbacks, flows' = [flows EXCEPT ![f] = Idle]
    PROVE  /\ flows' \in [Callbacks -> Flow]
           /\ flows'[f].at = "idle"
           /\ \A g \in Callbacks \ {f} : flows'[g] = flows[g]
  BY DEF Typed, Flow, Idle

-----------------------------------------------------------------------------
(* What most steps leave alone.                                            *)

\* Sessions keep what they were earned by and for.
SessionsStand ==
    /\ DOMAIN sessions' = DOMAIN sessions
    /\ \A i \in DOMAIN sessions :
         /\ sessions'[i].login = sessions[i].login
         /\ sessions'[i].user = sessions[i].user
         /\ sessions'[i].subject = sessions[i].subject

\* No state is stored and no callback takes a login on.
LEMMA LoginsStand ==
    ASSUME LoginsOnce, UNCHANGED logins, SessionsStand,
           DOMAIN states' \subseteq DOMAIN states,
           \A f \in Callbacks :
             Busy(f)' => Busy(f) /\ flows'[f].login = flows[f].login
    PROVE  LoginsOnce'
  BY DEF LoginsOnce, SessionsStand, Busy

\* Rows are added, and only a row nobody has gets a subject.
UsersGrow ==
    /\ DOMAIN users \subseteq DOMAIN users'
    /\ \A u \in DOMAIN users :
         users'[u].subject = users[u].subject \/ users[u].subject = NoOne

LEMMA OwnersStand ==
    ASSUME Typed, Owned, SessionsStand, UsersGrow,
           \A f \in Callbacks : flows'[f] = flows[f] \/ (Settled(f)' => Owns(f)')
    PROVE  Owned'
<1>1. ASSUME NEW f \in Callbacks, Settled(f)' PROVE Owns(f)'
  <2>1. CASE flows'[f] = flows[f]
    <3>1. Settled(f) /\ Owns(f)
      BY <1>1, <2>1 DEF Settled, Owned
    <3>2. flows[f].subject \in Subjects
      BY <3>1, KnownFlows DEF Settled, Known, KnownFlow
    <3> QED BY <2>1, <3>1, <3>2, SignInAssumption DEF Owns, UsersGrow
  <2> QED BY <1>1, <2>1
<1>2. ASSUME NEW i \in DOMAIN sessions'
      PROVE  /\ sessions'[i].user \in DOMAIN users'
             /\ users'[sessions'[i].user].subject = sessions'[i].subject
  <2>1. i \in DOMAIN sessions
    BY <1>2 DEF SessionsStand
  <2>2. sessions[i].subject \in Subjects
    <3>1. sessions[i] \in Session
      BY <2>1 DEF Typed
    <3> QED BY <3>1 DEF Session
  <2>3. /\ sessions[i].user \in DOMAIN users
        /\ users[sessions[i].user].subject = sessions[i].subject
    BY <2>1 DEF Owned
  <2> QED BY <2>1, <2>2, <2>3, SignInAssumption DEF SessionsStand, UsersGrow
<1> QED BY <1>1, <1>2 DEF Owned

\* No grant is taken on or carried out.
LEMMA GrantsStand ==
    ASSUME Owned, Ungranted,
           \A u \in DOMAIN users :
             /\ users'[u].granted = users[u].granted
             /\ users'[u].provisioned = users[u].provisioned,
           \A f \in Callbacks : flows'[f].at = "granting" => flows'[f] = flows[f]
    PROVE  Ungranted'
  BY DEF Owned, Settled, Owns, Ungranted

-----------------------------------------------------------------------------
(* Every step keeps the invariant.                                         *)

LEMMA InitIInv == SignInInit => IInv
<1> SUFFICES ASSUME SignInInit PROVE IInv
  OBVIOUS
<1>1. Typed
  BY DEF SignInInit, Typed, Flow, Idle
<1>2. DOMAIN states = {} /\ DOMAIN sessions = {} /\ DOMAIN users = {}
  BY DEF SignInInit
<1>3. \A f \in Callbacks : flows[f].at = "idle"
  BY DEF SignInInit, Idle
<1> QED BY <1>1, <1>2, <1>3
        DEF IInv, LoginsOnce, Owned, Ungranted, OneAccount, Busy, Settled

\* A login is stored beside those that live, under a name none had before.
LEMMA LoginStep ==
    ASSUME IInv, NEW b \in Browsers, Login(b)
    PROVE  IInv'
<1> DEFINE s == Len(logins) + 1
<1>1. /\ UNCHANGED <<now, flows, users, sessions>>
      /\ logins' = Append(logins, b)
      /\ DOMAIN states' \subseteq DOMAIN states \cup {s}
  BY DEF Login, LiveState
<1>2. /\ logins' \in Seq(Browsers) /\ DOMAIN logins' = DOMAIN logins \cup {s}
      /\ s \notin DOMAIN logins /\ DOMAIN logins = 1..Len(logins)
  BY <1>1 DEF IInv, Typed
<1>3. Typed'
  BY <1>1, <1>2 DEF IInv, Typed
<1> HIDE DEF s
<1>4. LoginsOnce'
  BY <1>1, <1>2 DEF IInv, LoginsOnce, Busy
<1> QED BY <1>1, <1>3, <1>4 DEF IInv, Owned, Settled, Owns, Ungranted, OneAccount

\* What has expired is deleted, a callback is refused, time passes.
LEMMA IdleSteps ==
    ASSUME IInv, \/ LoginFails \/ SignInTick \/ UNCHANGED signInVars
                 \/ \E b \in Browsers, s \in DOMAIN logins : Refused(b, s)
    PROVE  IInv'
<1>1. /\ UNCHANGED <<logins, flows, users, sessions>>
      /\ DOMAIN states' \subseteq DOMAIN states
      /\ now' \in Nat
  BY DEF LoginFails, SignInTick, Refused, signInVars, IInv, Typed
<1>2. Typed'
  BY <1>1 DEF IInv, Typed
<1>3. LoginsOnce'
  BY <1>1, LoginsStand DEF IInv, SessionsStand, Busy
<1> QED BY <1>1, <1>2, <1>3
        DEF IInv, Owned, Settled, Owns, Ungranted, OneAccount

\* Of the callbacks that bring one state, one deletes it.
LEMMA ConsumeStep ==
    ASSUME IInv, NEW f \in Callbacks, NEW b \in Browsers,
           NEW s \in DOMAIN logins, Consume(f, b, s)
    PROVE  IInv'
<1>1. /\ UNCHANGED <<now, logins, users, sessions>>
      /\ s \in DOMAIN states /\ DOMAIN states' = DOMAIN states \ {s}
      /\ flows' = [flows EXCEPT ![f] = [at |-> "exchanging", login |-> s]]
      /\ flows[f].at = "idle"
  BY DEF Consume, StateUsed, LiveState
<1>2. /\ flows'[f] = [at |-> "exchanging", login |-> s]
      /\ \A g \in Callbacks \ {f} : flows'[g] = flows[g]
      /\ s \in Nat
  BY <1>1 DEF IInv, Typed
<1>3. flows' \in [Callbacks -> Flow]
  BY <1>1, <1>2 DEF IInv, Typed, Flow
<1>4. Typed'
  BY <1>1, <1>3 DEF IInv, Typed
<1>5. flows'[f].at = "exchanging" /\ flows'[f].login = s
  BY <1>2
<1>6. LoginsOnce'
  <2>1. ASSUME NEW g \in Callbacks, Busy(g)'
        PROVE  /\ flows'[g].login \in DOMAIN logins' \ DOMAIN states'
               /\ \A h \in Callbacks :
                    Busy(h)' /\ flows'[h].login = flows'[g].login => g = h
               /\ \A i \in DOMAIN sessions : flows'[g].login # sessions[i].login
    BY <1>1, <1>2, <1>5, <2>1 DEF IInv, LoginsOnce, Busy
  <2> QED BY <1>1, <2>1 DEF IInv, LoginsOnce
<1>7. Owned'
  BY <1>1, <1>2, <1>5, OwnersStand
     DEF IInv, SessionsStand, UsersGrow, Settled
<1>8. Ungranted'
  BY <1>1, <1>2, <1>5, GrantsStand DEF IInv
<1> QED BY <1>1, <1>4, <1>6, <1>7, <1>8 DEF IInv, OneAccount

\* A callback stops, or learns whom the token names.
LEMMA ExchangeStep ==
    ASSUME IInv, NEW f \in Callbacks,
           \/ Abandon(f)
           \/ \E subject \in Subjects, email \in Emails : Exchange(f, subject, email)
    PROVE  IInv'
<1>1. UNCHANGED <<now, states, logins, users, sessions>>
  BY DEF Abandon, Exchange
<1>2. /\ flows' \in [Callbacks -> Flow]
      /\ Busy(f)' => Busy(f) /\ flows'[f].login = flows[f].login
      /\ flows'[f].at \notin {"granting", "opening"}
      /\ \A g \in Callbacks \ {f} : flows'[g] = flows[g]
  <2>1. CASE Abandon(f)
    BY <2>1, IdleStep DEF Abandon, IInv, Busy
  <2>2. ASSUME NEW subject \in Subjects, NEW email \in Emails,
               Exchange(f, subject, email)
        PROVE  <1>2
    <3>1. flows[f].at = "exchanging" /\ flows[f].login \in Nat
      BY <2>2 DEF Exchange, IInv, Typed, Flow, KnownFlow, Known, Idle
    <3> DEFINE flow == [at |-> "looking", login |-> flows[f].login,
                        subject |-> subject, email |-> email, user |-> 0]
    <3>2. flow \in KnownFlow
      BY <3>1 DEF KnownFlow, Known
    <3>3. flows' = [flows EXCEPT ![f] = flow]
      BY <2>2 DEF Exchange, IInv, Typed
    <3>4. flow.at = "looking" /\ flow.login = flows[f].login
      OBVIOUS
    <3> HIDE DEF flow
    <3> QED BY <3>1, <3>2, <3>3, <3>4 DEF IInv, Typed, Flow, Busy
  <2> QED BY <2>1, <2>2
<1>3. Typed'
  BY <1>1, <1>2 DEF IInv, Typed
<1>4. SessionsStand
  BY <1>1 DEF SessionsStand
<1>5. \A g \in Callbacks : Busy(g)' => Busy(g) /\ flows'[g].login = flows[g].login
  BY <1>2 DEF Busy
<1>6. LoginsOnce'
  BY <1>1, <1>4, <1>5, LoginsStand DEF IInv
<1>7. Owned'
  BY <1>1, <1>2, <1>4, OwnersStand DEF IInv, UsersGrow, Settled
<1>8. Ungranted'
  BY <1>1, <1>2, GrantsStand DEF IInv
<1> QED BY <1>1, <1>3, <1>6, <1>7, <1>8 DEF IInv, OneAccount

\* What the statements of upsert_user and the grant have in common: one callback
\* moves on with its account, and no login changes hands.
LEMMA StatementStep ==
    ASSUME IInv, NEW f \in Callbacks, flows[f].at \in Known, NEW u \in Nat,
           NEW next \in Known, Resolved(f, u, next),
           UNCHANGED <<now, states, logins, sessions>>,
           users' \in Seq(User), UsersGrow,
           next \in {"granting", "opening"} => /\ u \in DOMAIN users'
                                               /\ users'[u].subject = flows[f].subject
    PROVE  Typed' /\ LoginsOnce' /\ Owned'
<1>1. /\ flows' \in [Callbacks -> Flow]
      /\ flows'[f].at = next /\ flows'[f].user = u
      /\ flows'[f].login = flows[f].login
      /\ flows'[f].subject = flows[f].subject
      /\ \A g \in Callbacks \ {f} : flows'[g] = flows[g]
  BY ResolvedStep DEF IInv
<1>2. Typed'
  BY <1>1 DEF IInv, Typed
<1>3. Busy(f)
  BY DEF Busy, Known
<1>4. SessionsStand
  BY DEF SessionsStand
<1>5. \A g \in Callbacks : Busy(g)' => Busy(g) /\ flows'[g].login = flows[g].login
  BY <1>1, <1>3 DEF Busy
<1>6. LoginsOnce'
  BY <1>4, <1>5, LoginsStand DEF IInv
<1>7. \A g \in Callbacks : flows'[g] = flows[g] \/ (Settled(g)' => Owns(g)')
  BY <1>1 DEF Settled, Owns
<1>8. Owned'
  BY <1>4, <1>7, OwnersStand DEF IInv
<1> QED BY <1>2, <1>6, <1>8

\* The account the subject has is looked up.
LEMMA LookUpStep ==
    ASSUME IInv, NEW f \in Callbacks, LookUp(f)
    PROVE  IInv'
<1>1. /\ UNCHANGED <<now, states, logins, users, sessions>>
      /\ flows[f].at = "looking"
      /\ \/ Resolved(f, 0, "claiming")
         \/ \E u \in DOMAIN users : /\ users[u].subject = flows[f].subject
                                    /\ Resolved(f, u, "opening")
  BY DEF LookUp, AfterLookUp, IsSubject
<1>2. PICK u \in Nat, next \in {"claiming", "opening"} :
         /\ Resolved(f, u, next)
         /\ next = "opening" => /\ u \in DOMAIN users
                                /\ users[u].subject = flows[f].subject
  BY <1>1 DEF IInv, Typed
<1>3. next \in Known /\ flows[f].at \in Known
  BY <1>1 DEF Known
<1>4. users' \in Seq(User) /\ UsersGrow
  BY <1>1 DEF IInv, Typed, UsersGrow
<1>5. Typed' /\ LoginsOnce' /\ Owned'
  BY <1>1, <1>2, <1>3, <1>4, StatementStep
<1>6. /\ flows'[f].at = next
      /\ \A g \in Callbacks \ {f} : flows'[g] = flows[g]
  BY <1>2, <1>3, ResolvedStep DEF IInv
<1>7. Ungranted'
  BY <1>1, <1>6, GrantsStand DEF IInv
<1> QED BY <1>1, <1>5, <1>7 DEF IInv, OneAccount

\* An account nobody has is claimed, under the index of subjects.
LEMMA ClaimStep ==
    ASSUME IInv, NEW f \in Callbacks, Claim(f)
    PROVE  IInv'
<1>1. /\ UNCHANGED <<now, states, logins, sessions>>
      /\ flows[f].at = "claiming"
  BY DEF Claim
<1>2. flows[f].at \in Known /\ flows[f] \in KnownFlow
  BY <1>1, KnownFlows DEF Known, IInv
<1>3. CASE UNCHANGED users /\ Resolved(f, 0, "inserting")
  <2>1. "inserting" \in Known /\ users' \in Seq(User) /\ UsersGrow
    BY <1>3 DEF Known, IInv, Typed, UsersGrow
  <2>2. Typed' /\ LoginsOnce' /\ Owned'
    BY <1>1, <1>2, <1>3, <2>1, StatementStep
  <2>3. /\ flows'[f].at = "inserting"
        /\ \A g \in Callbacks \ {f} : flows'[g] = flows[g]
    BY <1>2, <1>3, <2>1, ResolvedStep DEF IInv
  <2>4. Ungranted'
    BY <1>3, <2>3, GrantsStand DEF IInv
  <2> QED BY <1>3, <2>2, <2>4 DEF IInv, OneAccount
<1>4. ASSUME NEW u \in DOMAIN users, Claimable(u, f),
             \A v \in DOMAIN users : ~IsSubject(v, flows[f].subject),
             users' = [users EXCEPT ![u].subject = flows[f].subject],
             Resolved(f, u, "opening")
      PROVE  IInv'
  <2>1. /\ users \in Seq(User) /\ users[u] \in User /\ u \in Nat
        /\ flows[f].subject \in Subjects /\ users[u].subject = NoOne
    BY <1>2, <1>4 DEF IInv, Typed, KnownFlow, Claimable
  <2>2. users' = [users EXCEPT ![u] = [users[u] EXCEPT !.subject = flows[f].subject]]
    BY <1>4, <2>1
  <2>3. [users[u] EXCEPT !.subject = flows[f].subject] \in User
    BY <2>1 DEF User
  <2>4. /\ users' \in Seq(User) /\ DOMAIN users' = DOMAIN users
        /\ users'[u] = [users[u] EXCEPT !.subject = flows[f].subject]
        /\ \A v \in DOMAIN users \ {u} : users'[v] = users[v]
    BY <2>1, <2>2, <2>3
  <2>5. /\ users'[u].subject = flows[f].subject
        /\ users'[u].email = users[u].email
        /\ users'[u].granted = users[u].granted
        /\ users'[u].provisioned = users[u].provisioned
    BY <2>1, <2>4 DEF User
  <2>6. UsersGrow
    BY <2>1, <2>4, <2>5 DEF UsersGrow
  <2>7. "opening" \in Known
    BY DEF Known
  <2>8. Typed' /\ LoginsOnce' /\ Owned'
    BY <1>1, <1>2, <1>4, <2>1, <2>4, <2>5, <2>6, <2>7, StatementStep
  <2>9. /\ flows'[f].at = "opening"
        /\ \A g \in Callbacks \ {f} : flows'[g] = flows[g]
    BY <1>2, <1>4, <2>1, <2>7, ResolvedStep DEF IInv
  <2>10. Ungranted'
    BY <2>4, <2>5, <2>9, GrantsStand DEF IInv
  <2>11. OneAccount'
    BY <1>4, <2>4, <2>5 DEF IInv, OneAccount, IsSubject
  <2> QED BY <2>8, <2>10, <2>11 DEF IInv
<1> QED BY <1>1, <1>3, <1>4 DEF Claim

\* A row at the end of users that no other shares a name with.
LEMMA AppendStep ==
    ASSUME IInv, NEW row \in User, users' = Append(users, row), row.granted = 0,
           \A u \in DOMAIN users : users[u].email # row.email,
           row.subject = NoOne \/ \A u \in DOMAIN users : users[u].subject # row.subject
    PROVE  /\ users' \in Seq(User) /\ UsersGrow /\ OneAccount'
           /\ DOMAIN users' = DOMAIN users \cup {Len(users) + 1}
           /\ Len(users) + 1 \notin DOMAIN users
           /\ users'[Len(users) + 1] = row
           /\ \A u \in DOMAIN users : users'[u] = users[u]
<1>1. /\ users \in Seq(User) /\ Len(users) \in Nat
      /\ DOMAIN users = 1..Len(users)
  BY DEF IInv, Typed
<1> DEFINE n == Len(users) + 1
<1>2. /\ users' \in Seq(User) /\ n \notin DOMAIN users
      /\ DOMAIN users' = DOMAIN users \cup {n} /\ users'[n] = row
      /\ \A u \in DOMAIN users : users'[u] = users[u]
  BY <1>1
<1> HIDE DEF n
<1>3. UsersGrow
  BY <1>2 DEF UsersGrow
<1>4. OneAccount'
  <2>1. ASSUME NEW u \in DOMAIN users', NEW v \in DOMAIN users'
        PROVE  /\ users'[u].granted <= 1
               /\ users'[u].provisioned => users'[u].granted = 0
               /\ users'[u].email = users'[v].email => u = v
               /\ /\ users'[u].subject = users'[v].subject
                  /\ users'[u].subject # NoOne
                  => u = v
    <3>1. CASE u \in DOMAIN users /\ v \in DOMAIN users
      BY <1>2, <3>1 DEF IInv, OneAccount
    <3>2. CASE u = n \/ v = n
      <4>1. \A w \in DOMAIN users :
               /\ users[w].granted <= 1
               /\ users[w].provisioned => users[w].granted = 0
        BY DEF IInv, OneAccount
      <4>2. row.granted <= 1
        OBVIOUS
      <4>3. /\ users'[u].granted <= 1
            /\ users'[u].provisioned => users'[u].granted = 0
        BY <1>2, <4>1, <4>2
      <4>4. u = v \/ users'[u].email # users'[v].email
        BY <1>2, <3>2
      <4>5. \/ u = v \/ users'[u].subject = NoOne
            \/ users'[u].subject # users'[v].subject
        BY <1>2, <3>2
      <4> QED BY <4>3, <4>4, <4>5
    <3> QED BY <1>2, <3>1, <3>2
  <2> QED BY <2>1 DEF OneAccount
<1> QED BY <1>2, <1>3, <1>4 DEF n

\* An account is inserted; its grant is its callback's alone.
LEMMA InsertStep ==
    ASSUME IInv, NEW f \in Callbacks, Insert(f)
    PROVE  IInv'
<1> DEFINE n == Len(users) + 1
           row == [email |-> flows[f].email, subject |-> flows[f].subject,
                   granted |-> 0, provisioned |-> FALSE]
<1>1. /\ UNCHANGED <<now, states, logins, sessions>>
      /\ flows[f].at = "inserting" /\ users' = Append(users, row)
      /\ Resolved(f, n, "granting")
      /\ \A u \in DOMAIN users : /\ users[u].email # flows[f].email
                                 /\ users[u].subject # flows[f].subject
  BY DEF Insert, EmailTaken, IsSubject
<1>2. flows[f].at \in Known /\ flows[f] \in KnownFlow
  BY <1>1, KnownFlows DEF Known, IInv
<1>3. /\ row \in User /\ row.granted = 0 /\ row.email = flows[f].email
      /\ row.provisioned = FALSE
      /\ row.subject = flows[f].subject /\ n \in Nat
  BY <1>2 DEF KnownFlow, User, IInv, Typed
<1> HIDE DEF row
<1>4. /\ users' \in Seq(User) /\ UsersGrow /\ OneAccount'
      /\ n \in DOMAIN users' /\ n \notin DOMAIN users /\ users'[n] = row
      /\ \A u \in DOMAIN users : users'[u] = users[u]
  BY <1>1, <1>3, AppendStep
<1> HIDE DEF n
<1>5. "granting" \in Known
  BY DEF Known
<1>6. Typed' /\ LoginsOnce' /\ Owned'
  BY <1>1, <1>2, <1>3, <1>4, <1>5, StatementStep
<1>7. /\ flows'[f].at = "granting" /\ flows'[f].user = n
      /\ \A g \in Callbacks \ {f} : flows'[g] = flows[g]
  BY <1>1, <1>2, <1>3, <1>5, ResolvedStep DEF IInv
<1>8. \A g \in Callbacks : flows[g].at = "granting" =>
         /\ flows[g].user \in DOMAIN users /\ users[flows[g].user].granted = 0
         /\ ~users[flows[g].user].provisioned
         /\ \A h \in Callbacks :
              flows[h].at = "granting" /\ flows[h].user = flows[g].user => g = h
  BY DEF IInv, Owned, Settled, Owns, Ungranted
<1>9. Ungranted'
  <2>1. ASSUME NEW g \in Callbacks, flows'[g].at = "granting"
        PROVE  /\ users'[flows'[g].user].granted = 0
               /\ ~users'[flows'[g].user].provisioned
               /\ \A h \in Callbacks :
                    flows'[h].at = "granting" /\ flows'[h].user = flows'[g].user
                      => g = h
    <3>1. CASE g = f
      BY <1>3, <1>4, <1>7, <1>8, <3>1
    <3>2. CASE g # f
      BY <1>4, <1>7, <1>8, <2>1, <3>2
    <3> QED BY <3>1, <3>2
  <2> QED BY <2>1 DEF Ungranted
<1> QED BY <1>4, <1>6, <1>9 DEF IInv

\* The credit of a new account is granted by the callback that inserted it.
LEMMA GrantStep ==
    ASSUME IInv, NEW f \in Callbacks, Grant(f)
    PROVE  IInv'
<1> DEFINE u == flows[f].user
<1>1. /\ UNCHANGED <<now, states, logins, sessions>>
      /\ flows[f].at = "granting" /\ Resolved(f, u, "opening")
      /\ users' = [users EXCEPT ![u].granted = @ + 1] \/ UNCHANGED users
  BY DEF Grant
<1>2. flows[f].at \in Known /\ flows[f] \in KnownFlow
  BY <1>1, KnownFlows DEF Known, IInv
<1>3. /\ u \in Nat /\ u \in DOMAIN users /\ users[u].granted = 0
      /\ ~users[u].provisioned
      /\ users[u].subject = flows[f].subject
      /\ \A g \in Callbacks : flows[g].at = "granting" /\ flows[g].user = u => f = g
      /\ users \in Seq(User) /\ users[u] \in User
  BY <1>1, <1>2 DEF IInv, Typed, KnownFlow, Owned, Settled, Owns, Ungranted
<1> HIDE DEF u
<1>4. /\ users' \in Seq(User) /\ DOMAIN users' = DOMAIN users
      /\ users'[u].granted \in {0, 1} /\ ~users'[u].provisioned
      /\ users'[u].subject = users[u].subject /\ users'[u].email = users[u].email
      /\ \A v \in DOMAIN users \ {u} : users'[v] = users[v]
  <2>1. CASE UNCHANGED users
    BY <1>3, <2>1
  <2>2. CASE users' = [users EXCEPT ![u].granted = @ + 1]
    <3>1. users' = [users EXCEPT ![u] = [users[u] EXCEPT !.granted = 1]]
      BY <1>3, <2>2
    <3>2. [users[u] EXCEPT !.granted = 1] \in User
      BY <1>3 DEF User
    <3>3. users'[u] = [users[u] EXCEPT !.granted = 1]
      BY <1>3, <3>1
    <3>4. /\ users'[u].granted = 1 /\ users'[u].subject = users[u].subject
          /\ users'[u].email = users[u].email
          /\ users'[u].provisioned = users[u].provisioned
      BY <1>3, <3>3 DEF User
    <3> QED BY <1>3, <3>1, <3>2, <3>4
  <2> QED BY <1>1, <2>1, <2>2
<1>5. UsersGrow
  BY <1>4 DEF UsersGrow
<1>6. "opening" \in Known
  BY DEF Known
<1>7. Typed' /\ LoginsOnce' /\ Owned'
  BY <1>1, <1>2, <1>3, <1>4, <1>5, <1>6, StatementStep
<1>8. /\ flows'[f].at = "opening"
      /\ \A g \in Callbacks \ {f} : flows'[g] = flows[g]
  BY <1>1, <1>2, <1>3, <1>6, ResolvedStep DEF IInv
<1>9. Ungranted'
  <2>1. ASSUME NEW g \in Callbacks, flows'[g].at = "granting"
        PROVE  /\ g # f /\ flows[g].at = "granting" /\ flows'[g] = flows[g]
               /\ flows[g].user \in DOMAIN users \ {u}
    BY <1>3, <1>8, <2>1 DEF IInv, Owned, Settled, Owns
  <2> QED BY <1>4, <2>1 DEF IInv, Ungranted
<1>10. OneAccount'
  <2>1. \A v \in DOMAIN users :
           /\ users'[v].granted <= 1
           /\ users'[v].provisioned => users'[v].granted = 0
    BY <1>4 DEF IInv, OneAccount
  <2>2. \A v \in DOMAIN users : /\ users'[v].email = users[v].email
                                /\ users'[v].subject = users[v].subject
    BY <1>4
  <2> QED BY <1>4, <2>1, <2>2 DEF IInv, OneAccount
<1> QED BY <1>7, <1>9, <1>10 DEF IInv

\* The session is the login's, for the account the subject has.
LEMMA OpenStep ==
    ASSUME IInv, NEW f \in Callbacks, Open(f)
    PROVE  IInv'
<1> DEFINE x == [user |-> flows[f].user, login |-> flows[f].login,
                 subject |-> flows[f].subject, expires |-> now + SessionTtl,
                 revoked |-> FALSE]
           n == Len(sessions) + 1
<1>1. /\ UNCHANGED <<now, states, logins, users>>
      /\ flows[f].at = "opening" /\ sessions' = Append(sessions, x)
      /\ flows' = [flows EXCEPT ![f] = Idle]
  BY DEF Open
<1>2. flows[f] \in KnownFlow
  BY <1>1, KnownFlows DEF Known, IInv
<1>3. /\ x \in Session /\ x.login = flows[f].login /\ x.user = flows[f].user
      /\ x.subject = flows[f].subject
  BY <1>2, SignInAssumption DEF KnownFlow, Session, IInv, Typed
<1> HIDE DEF x
<1>4. /\ flows' \in [Callbacks -> Flow] /\ flows'[f].at = "idle"
      /\ \A g \in Callbacks \ {f} : flows'[g] = flows[g]
  BY <1>1, IdleStep DEF IInv
<1>5. /\ sessions' \in Seq(Session) /\ n \notin DOMAIN sessions
      /\ DOMAIN sessions' = DOMAIN sessions \cup {n} /\ sessions'[n] = x
      /\ \A i \in DOMAIN sessions : sessions'[i] = sessions[i]
  BY <1>1, <1>3 DEF IInv, Typed
<1> HIDE DEF n
<1>6. Typed'
  BY <1>1, <1>4, <1>5 DEF IInv, Typed
<1>7. /\ Busy(f) /\ ~Busy(f)'
      /\ \A g \in Callbacks : Busy(g)' => /\ g # f /\ Busy(g)
                                          /\ flows'[g].login = flows[g].login
  BY <1>1, <1>4 DEF Busy
<1>8. LoginsOnce'
  <2>1. ASSUME NEW g \in Callbacks, Busy(g)'
        PROVE  /\ flows'[g].login \in DOMAIN logins \ DOMAIN states
               /\ flows'[g].login # x.login
               /\ \A h \in Callbacks :
                    Busy(h)' /\ flows'[h].login = flows'[g].login => g = h
               /\ \A i \in DOMAIN sessions : flows'[g].login # sessions[i].login
    BY <1>3, <1>7, <2>1 DEF IInv, LoginsOnce
  <2>2. /\ x.login \in DOMAIN logins \ DOMAIN states
        /\ \A i \in DOMAIN sessions : sessions[i].login # x.login
    BY <1>3, <1>7 DEF IInv, LoginsOnce
  <2>3. \A i \in DOMAIN sessions :
           /\ sessions[i].login \in DOMAIN logins \ DOMAIN states
           /\ \A j \in DOMAIN sessions :
                sessions[j].login = sessions[i].login => i = j
    BY DEF IInv, LoginsOnce
  <2>4. ASSUME NEW i \in DOMAIN sessions'
        PROVE  /\ sessions'[i].login \in DOMAIN logins \ DOMAIN states
               /\ \A g \in Callbacks : Busy(g)' => flows'[g].login # sessions'[i].login
               /\ \A j \in DOMAIN sessions' :
                    sessions'[j].login = sessions'[i].login => i = j
    BY <1>5, <2>1, <2>2, <2>3
  <2>5. DOMAIN states' \subseteq DOMAIN logins'
    BY <1>1 DEF IInv, LoginsOnce
  <2> QED BY <1>1, <2>1, <2>4, <2>5 DEF LoginsOnce
<1>9. Owned'
  <2>1. Owns(f)
    BY <1>1 DEF IInv, Owned, Settled
  <2>2. \A i \in DOMAIN sessions' :
           /\ sessions'[i].user \in DOMAIN users
           /\ users[sessions'[i].user].subject = sessions'[i].subject
    BY <1>3, <1>5, <2>1 DEF IInv, Owned, Owns
  <2>3. \A g \in Callbacks : Settled(g)' => Owns(g)'
    BY <1>1, <1>4 DEF IInv, Owned, Settled, Owns
  <2> QED BY <1>1, <2>2, <2>3 DEF Owned
<1>10. Ungranted'
  BY <1>1, <1>4, GrantsStand DEF IInv
<1> QED BY <1>1, <1>6, <1>8, <1>9, <1>10 DEF IInv, OneAccount

\* A session is revoked, an account is made for an address.
LEMMA OtherStep ==
    ASSUME IInv, \/ \E b \in Browsers : Logout(b)
                 \/ \E email \in Emails : Provision(email)
    PROVE  IInv'
<1>1. UNCHANGED <<now, states, logins, flows>>
  BY DEF Logout, Provision
<1>2. ASSUME NEW b \in Browsers, Logout(b) PROVE IInv'
  <2>1. PICK n : sessions' = [sessions EXCEPT ![n].revoked = TRUE]
    BY <1>2 DEF Logout
  <2>2. UNCHANGED users
    BY <1>2 DEF Logout
  <2>3. sessions' \in Seq(Session) /\ SessionsStand
    <3>1. sessions \in Seq(Session)
      BY DEF IInv, Typed
    <3>2. CASE n \notin DOMAIN sessions
      <4>1. UNCHANGED sessions
        BY <2>1, <3>1, <3>2
      <4> QED BY <3>1, <4>1 DEF SessionsStand
    <3>3. CASE n \in DOMAIN sessions
      <4> DEFINE x == [sessions[n] EXCEPT !.revoked = TRUE]
      <4>1. /\ x \in Session /\ x.login = sessions[n].login
            /\ x.user = sessions[n].user /\ x.subject = sessions[n].subject
        <5>1. sessions[n] \in Session
          BY <3>1, <3>3
        <5> QED BY <5>1 DEF Session
      <4>2. sessions' = [sessions EXCEPT ![n] = x]
        BY <2>1, <3>1, <3>3
      <4> HIDE DEF x
      <4> QED BY <3>1, <3>3, <4>1, <4>2 DEF SessionsStand
    <3> QED BY <3>2, <3>3
  <2>4. Typed'
    BY <1>1, <2>2, <2>3 DEF IInv, Typed
  <2>5. LoginsOnce'
    BY <1>1, <2>3, LoginsStand DEF IInv, Busy
  <2>6. Owned'
    BY <1>1, <2>2, <2>3, OwnersStand DEF IInv, UsersGrow
  <2> QED BY <1>1, <2>2, <2>4, <2>5, <2>6 DEF IInv, Ungranted, OneAccount
<1>3. ASSUME NEW email \in Emails, Provision(email) PROVE IInv'
  <2> DEFINE row == [email |-> email, subject |-> NoOne, granted |-> 0,
                     provisioned |-> TRUE]
  <2>1. /\ UNCHANGED sessions /\ users' = Append(users, row)
        /\ \A u \in DOMAIN users : users[u].email # email
    BY <1>3 DEF Provision
  <2>2. row \in User /\ row.granted = 0 /\ row.email = email /\ row.subject = NoOne
    BY DEF User
  <2> HIDE DEF row
  <2>3. /\ users' \in Seq(User) /\ UsersGrow /\ OneAccount'
        /\ \A u \in DOMAIN users : users'[u] = users[u]
    BY <2>1, <2>2, AppendStep
  <2>4. Typed'
    BY <1>1, <2>1, <2>3 DEF IInv, Typed
  <2>5. SessionsStand
    BY <2>1 DEF SessionsStand
  <2>6. LoginsOnce'
    BY <1>1, <2>5, LoginsStand DEF IInv, Busy
  <2>7. Owned'
    BY <1>1, <2>3, <2>5, OwnersStand DEF IInv
  <2>8. Ungranted'
    BY <1>1, <2>3, GrantsStand DEF IInv
  <2> QED BY <2>3, <2>4, <2>6, <2>7, <2>8 DEF IInv
<1> QED BY <1>2, <1>3

LEMMA NextIInv == IInv /\ [SignInNext]_signInVars => IInv'
<1> SUFFICES ASSUME IInv, [SignInNext]_signInVars PROVE IInv'
  OBVIOUS
<1>1. ASSUME NEW f \in Callbacks,
             \/ LookUp(f) \/ Claim(f) \/ Insert(f) \/ Grant(f) \/ Open(f)
             \/ Abandon(f)
             \/ \E subject \in Subjects, email \in Emails :
                  Exchange(f, subject, email)
             \/ \E b \in Browsers, s \in DOMAIN logins : Consume(f, b, s)
      PROVE  IInv'
  BY <1>1, LookUpStep, ClaimStep, InsertStep, GrantStep, OpenStep, ExchangeStep,
     ConsumeStep
<1>2. CASE \/ LoginFails \/ SignInTick \/ UNCHANGED signInVars
           \/ \E b \in Browsers, s \in DOMAIN logins : Refused(b, s)
  BY <1>2, IdleSteps
<1>3. CASE \E b \in Browsers : Login(b)
  BY <1>3, LoginStep
<1>4. CASE \/ \E b \in Browsers : Logout(b)
           \/ \E email \in Emails : Provision(email)
  BY <1>4, OtherStep
<1> QED BY <1>1, <1>2, <1>3, <1>4 DEF SignInNext

-----------------------------------------------------------------------------
(* The theorems.                                                           *)

\* The strengthened invariant holds in every reachable state.
THEOREM Invariant == SignInSpec => []IInv
  BY InitIInv, NextIInv, PTL DEF SignInSpec

\* However many tabs call back with the same answer and however the statements of
\* their callbacks interleave, a login earns one session, of the account of the
\* subject it verified, and a subject or an address has one account, granted the
\* signup credit at most once and never if the operator created it (callback,
\* upsert_user, grant_promo, mint_key).
THEOREM SignedIn == SignInSpec => []SignedInAsThemselves
<1>1. IInv => SignedInAsThemselves
  BY DEF IInv, SignedInAsThemselves, SessionsEarned, LoginsOnce, Owned
<1> QED BY Invariant, <1>1, PTL

-----------------------------------------------------------------------------
(* Minting.  A transaction that has counted holds its user's row, so what it *)
(* counted can only have shrunk when it inserts; one that mints for a device *)
(* grant holds the grant.                                                    *)

Statuses == {"none", "pending", "approved", "denied", "expired", "claimed"}

KeyRow == [user : Users, name : Names, via : Grants \cup {"portal", "admin"},
           created : Int, disabled : BOOLEAN]
MintRow == [at : {"idle", "locking", "counting", "inserting"},
            user : Users \cup {Nobody}, name : Names,
            grant : Grants \cup {Nobody}]
GrantRow == [status : Statuses, user : Users \cup {Nobody}, expires : Int,
             lock : Minters \cup {Nobody}]

MintingTyped ==
    /\ mintNow \in Int
    /\ apiKeys \in Seq(KeyRow)
    /\ rowLock \in [Users -> Minters \cup {Nobody}]
    /\ mints \in [Minters -> MintRow]
    /\ grants \in [Grants -> GrantRow]

\* A mint under way is for a user; past the lock it holds the row.
RowHeld ==
    \A m \in Minters :
        /\ mints[m].at # "idle" => mints[m].user \in Users
        /\ mints[m].at \in {"counting", "inserting"} => rowLock[mints[m].user] = m

\* What a mint was admitted on still stands when it inserts.
StillAdmitted == \A m \in Minters : mints[m].at = "inserting" => MintAdmitted(m)

\* A grant being claimed is locked by one mint, for the user who approved it.
GrantHeld ==
    /\ \A g \in Grants :
         grants[g].status \in {"approved", "claimed"} => grants[g].user \in Users
    /\ \A m \in Minters : mints[m].at # "idle" /\ mints[m].grant # Nobody =>
         LET g == mints[m].grant IN
         grants[g].lock = m /\ grants[g].status = "approved"
         /\ grants[g].user = mints[m].user

\* A grant that has minted is claimed.
MintedIsClaimed ==
    \A k \in DOMAIN apiKeys :
        apiKeys[k].via \in Grants => grants[apiKeys[k].via].status = "claimed"

MintingInv ==
    MintingTyped /\ RowHeld /\ StillAdmitted /\ GrantHeld /\ MintedIsClaimed

\* Nothing is minted, locked or claimed at the start.
LEMMA InitMintingInv == KeysInit => MintingInv
<1> SUFFICES ASSUME KeysInit PROVE MintingInv
  OBVIOUS
<1>1. MintingTyped
  BY KeysAssumption DEF KeysInit, MintingTyped, IdleMint, MintRow, GrantRow, Names,
     Statuses
<1>2. \A m \in Minters : mints[m].at = "idle"
  BY DEF KeysInit, IdleMint
<1>3. \A g \in Grants : grants[g].status = "none"
  BY DEF KeysInit
<1>4. DOMAIN apiKeys = {}
  BY DEF KeysInit
<1> QED
  BY <1>1, <1>2, <1>3, <1>4
     DEF MintingInv, RowHeld, StillAdmitted, GrantHeld, MintedIsClaimed

LEMMA MintingConstants ==
    /\ Nobody \notin Minters /\ Nobody \notin Grants
    /\ "portal" \notin Grants /\ "admin" \notin Grants
    /\ MaxActive \in Nat /\ MaxCreated \in Nat /\ Window \in Int /\ GrantTtl \in Int
BY KeysAssumption

LEMMA KeysTyped ==
    ASSUME MintingTyped
    PROVE  /\ Len(apiKeys) \in Nat /\ DOMAIN apiKeys = 1..Len(apiKeys)
           /\ mintNow \in Int
           /\ \A k \in DOMAIN apiKeys : apiKeys[k] \in KeyRow
           /\ \A k \in DOMAIN apiKeys :
                /\ apiKeys[k].user \in Users /\ apiKeys[k].created \in Int
                /\ apiKeys[k].disabled \in BOOLEAN
                /\ apiKeys[k].via \in Grants \cup {"portal", "admin"}
<1>1. /\ Len(apiKeys) \in Nat /\ DOMAIN apiKeys = 1..Len(apiKeys)
      /\ mintNow \in Int
  BY DEF MintingTyped
<1>2. ASSUME NEW k \in DOMAIN apiKeys PROVE apiKeys[k] \in KeyRow
  BY <1>1 DEF MintingTyped
<1> QED BY <1>1, <1>2 DEF KeyRow

\* Every set of keys a mint counts is finite.
LEMMA CountedFinite ==
    ASSUME MintingTyped, NEW S, S \subseteq DOMAIN apiKeys
    PROVE  IsFiniteSet(S) /\ Cardinality(S) \in Nat
<1>1. DOMAIN apiKeys = 1..Len(apiKeys) /\ Len(apiKeys) \in Nat
  BY DEF MintingTyped
<1>2. IsFiniteSet(1..Len(apiKeys))
  BY <1>1, FS_Interval
<1> QED BY <1>1, <1>2, FS_Subset, FS_CardinalityType

\* While no key of its user is added and none comes back to life, what a mint
\* was admitted on stands.
LEMMA AdmissionStands ==
    ASSUME MintingTyped, MintingTyped', NEW m \in Minters, NEW u \in Users,
           mints[m].user = u, mints'[m] = mints[m], MintAdmitted(m),
           \A k \in DOMAIN apiKeys' : apiKeys'[k].user = u =>
               /\ k \in DOMAIN apiKeys
               /\ apiKeys[k].user = u /\ apiKeys'[k].name = apiKeys[k].name
               /\ apiKeys'[k].created = apiKeys[k].created
               /\ apiKeys[k].disabled => apiKeys'[k].disabled,
           mintNow' >= mintNow, u \notin frozenUsers'
    PROVE  MintAdmitted(m)'
<1> DEFINE L == LiveOf(u) \ Replaced(m)
           R == Recent(u)
<1>1. /\ L \subseteq DOMAIN apiKeys /\ R \subseteq DOMAIN apiKeys
      /\ Cardinality(L) < MaxActive /\ Cardinality(R) < MaxCreated
  BY DEF LiveOf, Of, Recent, MintAdmitted
<1>2. LiveOf(u)' \ Replaced(m)' \subseteq L
  BY DEF LiveOf, Of, Replaced, Playground
<1>3. Recent(u)' \subseteq R
  <2>1. \A k \in DOMAIN apiKeys : apiKeys[k].created \in Int
    BY KeysTyped
  <2>2. mintNow \in Int /\ mintNow' \in Int /\ Window \in Int
    BY MintingConstants DEF MintingTyped
  <2> QED BY <2>1, <2>2 DEF Recent, Of
<1> HIDE DEF L, R
<1>4. IsFiniteSet(L) /\ IsFiniteSet(R) /\ Cardinality(L) \in Nat /\ Cardinality(R) \in Nat
  BY <1>1, CountedFinite
<1>5. Cardinality(LiveOf(u)' \ Replaced(m)') <= Cardinality(L)
      /\ Cardinality(LiveOf(u)' \ Replaced(m)') \in Nat
  BY <1>2, <1>4, FS_Subset, FS_CardinalityType
<1>6. Cardinality(Recent(u)') <= Cardinality(R) /\ Cardinality(Recent(u)') \in Nat
  BY <1>3, <1>4, FS_Subset, FS_CardinalityType
<1>7. Cardinality(LiveOf(u)' \ Replaced(m)') < MaxActive
      /\ Cardinality(Recent(u)') < MaxCreated
  BY <1>1, <1>4, <1>5, <1>6, MintingConstants
<1>8. mints'[m].user = u
  OBVIOUS
<1> QED BY <1>7, <1>8 DEF MintAdmitted

\* The keys a playground mint disables keep their rows.
LEMMA DisabledTyped ==
    ASSUME MintingTyped, NEW m \in Minters
    PROVE  /\ Disabled(m) \in Seq(KeyRow) /\ Len(Disabled(m)) = Len(apiKeys)
           /\ DOMAIN Disabled(m) = DOMAIN apiKeys
           /\ \A k \in DOMAIN apiKeys :
                Disabled(m)[k] = IF k \in Replaced(m)
                                   THEN [apiKeys[k] EXCEPT !.disabled = TRUE]
                                   ELSE apiKeys[k]
<1>1. /\ Len(apiKeys) \in Nat /\ DOMAIN apiKeys = 1..Len(apiKeys)
      /\ \A k \in DOMAIN apiKeys : apiKeys[k] \in KeyRow
  BY KeysTyped
<1>2. ASSUME NEW k \in DOMAIN apiKeys
      PROVE  [apiKeys[k] EXCEPT !.disabled = TRUE] \in KeyRow
  BY <1>1 DEF KeyRow
<1>3. Disabled(m) \in [1..Len(apiKeys) -> KeyRow]
  BY <1>1, <1>2 DEF Disabled
<1> QED BY <1>1, <1>3 DEF Disabled

LEMMA DisabledKeeps ==
    ASSUME MintingTyped, NEW m \in Minters, NEW k \in DOMAIN apiKeys
    PROVE  /\ Disabled(m)[k].user = apiKeys[k].user
           /\ Disabled(m)[k].name = apiKeys[k].name
           /\ Disabled(m)[k].via = apiKeys[k].via
           /\ Disabled(m)[k].created = apiKeys[k].created
           /\ apiKeys[k].disabled => Disabled(m)[k].disabled
           /\ k \in Replaced(m) => Disabled(m)[k].disabled
           /\ k \notin Replaced(m) => Disabled(m)[k] = apiKeys[k]
<1>1. apiKeys[k] \in KeyRow
  BY KeysTyped
<1>2. CASE k \in Replaced(m)
  <2>1. Disabled(m)[k] = [apiKeys[k] EXCEPT !.disabled = TRUE]
    BY <1>2, DisabledTyped
  <2> QED BY <1>1, <1>2, <2>1 DEF KeyRow
<1>3. CASE k \notin Replaced(m)
  <2>1. Disabled(m)[k] = apiKeys[k]
    BY <1>3, DisabledTyped
  <2> QED BY <1>3, <2>1
<1> QED BY <1>2, <1>3

\* A commit appends the mint's own key and ends its transaction.
LEMMA CommitShape ==
    ASSUME MintingTyped, RowHeld, NEW m \in Minters, CommitMint(m),
           NEW u, u = mints[m].user
    PROVE  /\ u \in Users /\ apiKeys' \in Seq(KeyRow)
           /\ Len(apiKeys') = Len(apiKeys) + 1
           /\ DOMAIN apiKeys' = 1..(Len(apiKeys) + 1)
           /\ \A k \in DOMAIN apiKeys : apiKeys'[k] = Disabled(m)[k]
           /\ apiKeys'[Len(apiKeys) + 1] =
                NewKey(u, mints[m].name, IF mints[m].grant = Nobody THEN "portal"
                                         ELSE mints[m].grant)
           /\ mints[m].grant # Nobody => mints[m].grant \in Grants
<1> DEFINE via == IF mints[m].grant = Nobody THEN "portal" ELSE mints[m].grant
           key == NewKey(u, mints[m].name, via)
<1>1. u \in Users /\ mints[m] \in MintRow
  BY DEF RowHeld, MintingTyped, CommitMint
<1>2. via \in Grants \cup {"portal", "admin"} /\ mints[m].name \in Names
      /\ (mints[m].grant # Nobody => mints[m].grant \in Grants)
  BY <1>1 DEF MintRow
<1>3. key \in KeyRow
  BY <1>1, <1>2, KeysTyped DEF NewKey, KeyRow
<1>4. apiKeys' = Append(Disabled(m), key)
  BY DEF CommitMint
<1> HIDE DEF key, via
<1> DEFINE d == Disabled(m)
<1>5. d \in Seq(KeyRow) /\ Len(d) = Len(apiKeys) /\ DOMAIN apiKeys = 1..Len(d)
      /\ Len(d) \in Nat
  BY DisabledTyped, KeysTyped
<1> HIDE DEF d
<1>6. apiKeys' = Append(d, key)
  BY <1>4 DEF d
<1>7. /\ apiKeys' \in Seq(KeyRow) /\ Len(apiKeys') = Len(d) + 1
      /\ \A k \in 1..Len(d) : apiKeys'[k] = d[k]
      /\ apiKeys'[Len(d) + 1] = key
  BY <1>3, <1>5, <1>6
<1>8. DOMAIN apiKeys' = 1..(Len(apiKeys) + 1)
  BY <1>5, <1>7
<1> QED BY <1>1, <1>2, <1>5, <1>7, <1>8 DEF d, key, via

LEMMA AdminShape ==
    ASSUME MintingTyped, NEW u \in Users, AdminMint(u)
    PROVE  /\ apiKeys' \in Seq(KeyRow)
           /\ DOMAIN apiKeys' = 1..(Len(apiKeys) + 1)
           /\ \A k \in DOMAIN apiKeys : apiKeys'[k] = apiKeys[k]
           /\ apiKeys'[Len(apiKeys) + 1] = NewKey(u, "named", "admin")
<1> DEFINE key == NewKey(u, "named", "admin")
<1>1. key \in KeyRow
  BY KeysTyped DEF NewKey, KeyRow, Names
<1>2. apiKeys' = Append(apiKeys, key) /\ apiKeys \in Seq(KeyRow)
  BY DEF AdminMint, MintingTyped
<1> HIDE DEF key
<1>3. /\ apiKeys' \in Seq(KeyRow) /\ Len(apiKeys') = Len(apiKeys) + 1
      /\ DOMAIN apiKeys = 1..Len(apiKeys) /\ Len(apiKeys) \in Nat
      /\ \A k \in 1..Len(apiKeys) : apiKeys'[k] = apiKeys[k]
      /\ apiKeys'[Len(apiKeys) + 1] = key
  BY <1>1, <1>2
<1>4. DOMAIN apiKeys' = 1..(Len(apiKeys) + 1)
  BY <1>3
<1> QED BY <1>3, <1>4 DEF key

LEMMA DisableShape ==
    ASSUME MintingTyped, NEW k \in DOMAIN apiKeys, DisableKey(k)
    PROVE  /\ apiKeys' \in Seq(KeyRow) /\ DOMAIN apiKeys' = DOMAIN apiKeys
           /\ \A x \in DOMAIN apiKeys :
                apiKeys'[x] = IF x = k THEN [apiKeys[k] EXCEPT !.disabled = TRUE]
                              ELSE apiKeys[x]
<1>1. /\ Len(apiKeys) \in Nat /\ DOMAIN apiKeys = 1..Len(apiKeys)
      /\ \A x \in DOMAIN apiKeys : apiKeys[x] \in KeyRow
  BY KeysTyped
<1>2. [apiKeys[k] EXCEPT !.disabled = TRUE] \in KeyRow
  BY <1>1 DEF KeyRow
<1>3. apiKeys' = [apiKeys EXCEPT ![k] = [apiKeys[k] EXCEPT !.disabled = TRUE]]
  BY DEF DisableKey
<1>4. apiKeys \in [1..Len(apiKeys) -> KeyRow]
  BY <1>1 DEF MintingTyped
<1>5. apiKeys' \in [1..Len(apiKeys) -> KeyRow]
  BY <1>2, <1>3, <1>4
<1> QED BY <1>1, <1>3, <1>4, <1>5

LEMMA NextMintingTyped ==
    ASSUME MintingTyped, RowHeld, GrantHeld, [KeysNext]_keysVars
    PROVE  MintingTyped'
<1>1. CASE UNCHANGED keysVars
  BY <1>1 DEF MintingTyped, keysVars
<1>2. ASSUME NEW m \in Minters, NEW u \in Users, NEW name \in Names,
             RequestKey(m, u, name)
      PROVE  MintingTyped'
  BY <1>2 DEF MintingTyped, RequestKey, MintRow
<1>3. ASSUME NEW m \in Minters, NEW g \in Grants, PollApproved(m, g)
      PROVE  MintingTyped'
  <2>1. grants[g].user \in Users
    BY <1>3 DEF GrantHeld, PollApproved
  <2>2. [at |-> "locking", user |-> grants[g].user, name |-> "named", grant |-> g]
          \in MintRow
    BY <2>1 DEF MintRow, Names
  <2>3. [grants[g] EXCEPT !.lock = m] \in GrantRow
    BY DEF MintingTyped, GrantRow
  <2>4. mints' \in [Minters -> MintRow] /\ grants' \in [Grants -> GrantRow]
    BY <1>3, <2>2, <2>3 DEF MintingTyped, PollApproved
  <2> QED BY <1>3, <2>4 DEF MintingTyped, PollApproved
<1>4. ASSUME NEW m \in Minters, LockUser(m) PROVE MintingTyped'
  BY <1>4 DEF MintingTyped, LockUser, MintRow
<1>5. ASSUME NEW m \in Minters, Count(m) PROVE MintingTyped'
  BY <1>5 DEF MintingTyped, Count, MintRow
<1>6. ASSUME NEW m \in Minters, Released(m)
      PROVE  /\ rowLock' \in [Users -> Minters \cup {Nobody}]
             /\ mints' \in [Minters -> MintRow]
  BY <1>6 DEF Released, IdleMint, MintRow, Names, MintingTyped
<1>7. ASSUME NEW m \in Minters, CommitMint(m) PROVE MintingTyped'
  <2> DEFINE u == mints[m].user
             g == mints[m].grant
  <2>1. apiKeys' \in Seq(KeyRow) /\ (g # Nobody => g \in Grants)
    BY <1>7, CommitShape
  <2>2. grants' \in [Grants -> GrantRow]
    <3>1. CASE g = Nobody
      BY <1>7, <3>1 DEF CommitMint, MintingTyped
    <3>2. CASE g # Nobody
      <4>1. g \in Grants /\ Claimed(g)
        BY <1>7, <2>1, <3>2 DEF CommitMint
      <4> QED BY <4>1 DEF Claimed, MintingTyped, GrantRow, Statuses
    <3> QED BY <3>1, <3>2
  <2>3. Released(m) /\ UNCHANGED mintNow
    BY <1>7 DEF CommitMint
  <2> QED BY <1>6, <2>1, <2>2, <2>3 DEF MintingTyped
<1>8. ASSUME NEW m \in Minters, RollBack(m) PROVE MintingTyped'
  <2>1. grants' \in [Grants -> GrantRow]
    BY <1>8 DEF RollBack, MintingTyped, GrantRow
  <2>2. Released(m) /\ UNCHANGED <<mintNow, apiKeys>>
    BY <1>8 DEF RollBack
  <2> QED BY <1>6, <2>1, <2>2 DEF MintingTyped
<1>9. ASSUME NEW g \in Grants, StartGrant(g) PROVE MintingTyped'
  <2>1. mintNow + GrantTtl \in Int
    BY MintingConstants DEF MintingTyped
  <2>2. grants' \in [Grants -> GrantRow]
    BY <1>9, <2>1 DEF StartGrant, MintingTyped, GrantRow, Statuses
  <2> QED BY <1>9, <2>2 DEF StartGrant, MintingTyped
<1>10. ASSUME NEW g \in Grants, PollExpired(g) PROVE MintingTyped'
  BY <1>10 DEF PollExpired, MintingTyped, GrantRow, Statuses
<1>11. ASSUME NEW g \in Grants, NEW u \in Users,
              Decide(g, u, "approved") \/ Decide(g, u, "denied")
       PROVE  MintingTyped'
  <2>1. PICK verdict \in {"approved", "denied"} : Decide(g, u, verdict)
    BY <1>11
  <2>2. /\ [grants[g] EXCEPT !.status = verdict, !.user = u] \in GrantRow
        /\ [grants[g] EXCEPT !.status = verdict] \in GrantRow
    BY DEF MintingTyped, GrantRow, Statuses
  <2>3. \/ grants' = [grants EXCEPT ![g] = [grants[g] EXCEPT !.status = verdict, !.user = u]]
        \/ grants' = [grants EXCEPT ![g] = [grants[g] EXCEPT !.status = verdict]]
    BY <2>1 DEF Decide, MintingTyped, GrantRow
  <2>4. grants' \in [Grants -> GrantRow]
    BY <2>2, <2>3 DEF MintingTyped
  <2> QED BY <2>1, <2>4 DEF Decide, MintingTyped
<1>12. ASSUME NEW u \in Users, SetFrozen(u) PROVE MintingTyped'
  BY <1>12 DEF SetFrozen, MintingTyped
<1>13. ASSUME NEW u \in Users, AdminMint(u) PROVE MintingTyped'
  <2>1. apiKeys' \in Seq(KeyRow)
    BY <1>13, AdminShape
  <2> QED BY <1>13, <2>1 DEF AdminMint, MintingTyped
<1>14. ASSUME NEW k \in DOMAIN apiKeys, DisableKey(k) PROVE MintingTyped'
  <2>1. apiKeys' \in Seq(KeyRow)
    BY <1>14, DisableShape
  <2> QED BY <1>14, <2>1 DEF DisableKey, MintingTyped
<1>15. CASE KeysTick
  BY <1>15 DEF KeysTick, MintingTyped
<1> QED
  BY <1>1, <1>2, <1>3, <1>4, <1>5, <1>7, <1>8, <1>9, <1>10, <1>11, <1>12, <1>13,
     <1>14, <1>15 DEF KeysNext

\* Only who holds a row lets go of it.
LEMMA NextRowHeld ==
    ASSUME MintingTyped, RowHeld, GrantHeld, [KeysNext]_keysVars
    PROVE  RowHeld'
<1> USE MintingConstants DEF MintingTyped, RowHeld
<1>1. CASE UNCHANGED keysVars
  BY <1>1 DEF keysVars
<1>2. ASSUME NEW m \in Minters, NEW u \in Users, NEW name \in Names,
             RequestKey(m, u, name)
      PROVE  RowHeld'
  BY <1>2 DEF RequestKey
<1>3. ASSUME NEW m \in Minters, NEW g \in Grants, PollApproved(m, g)
      PROVE  RowHeld'
  BY <1>3 DEF PollApproved, GrantHeld
<1>4. ASSUME NEW m \in Minters, LockUser(m) PROVE RowHeld'
  BY <1>4 DEF LockUser, RowFree, MintRow
<1>5. ASSUME NEW m \in Minters, Count(m) PROVE RowHeld'
  BY <1>5 DEF Count, MintRow
<1>6. ASSUME NEW m \in Minters, Released(m) PROVE RowHeld'
  BY <1>6 DEF Released, IdleMint
<1>7. ASSUME UNCHANGED <<mints, rowLock>> PROVE RowHeld'
  BY <1>7
<1> QED
  BY <1>1, <1>2, <1>3, <1>4, <1>5, <1>6, <1>7
     DEF KeysNext, CommitMint, RollBack, StartGrant, PollExpired, Decide, SetFrozen,
         AdminMint, DisableKey, KeysTick

\* A locked grant is decided, expired and polled by nobody else.
LEMMA NextGrantHeld ==
    ASSUME MintingTyped, RowHeld, GrantHeld, [KeysNext]_keysVars
    PROVE  GrantHeld'
<1> USE DEF GrantHeld
<1>0. /\ grants \in [Grants -> GrantRow] /\ mints \in [Minters -> MintRow]
      /\ Nobody \notin Minters /\ Nobody \notin Grants
  BY MintingConstants DEF MintingTyped
<1>a. \A n \in Minters : mints[n].grant # Nobody => mints[n].grant \in Grants
  BY <1>0 DEF MintRow
<1>1. CASE UNCHANGED keysVars
  BY <1>1 DEF keysVars
<1>2. ASSUME NEW m \in Minters, NEW u \in Users, NEW name \in Names,
             RequestKey(m, u, name)
      PROVE  GrantHeld'
  BY <1>0, <1>2 DEF RequestKey
<1>3. ASSUME NEW m \in Minters, NEW g \in Grants, PollApproved(m, g)
      PROVE  GrantHeld'
  <2>1. /\ grants[g].lock = Nobody
        /\ \A h \in Grants : h # g => grants'[h] = grants[h]
        /\ grants'[g].lock = m /\ grants'[g].status = "approved"
        /\ grants[g].status = "approved" /\ grants'[g].user = grants[g].user
    BY <1>0, <1>3 DEF PollApproved, Unlocked, GrantRow
  <2>2. /\ \A n \in Minters : n # m => mints'[n] = mints[n]
        /\ mints'[m].grant = g /\ mints'[m].user = grants[g].user
    BY <1>0, <1>3 DEF PollApproved
  <2>3. \A n \in Minters : n # m /\ mints[n].at # "idle" => mints[n].grant # g
    BY <1>0, <2>1
  <2>4. \A h \in Grants :
          grants'[h].status \in {"approved", "claimed"} => grants'[h].user \in Users
    BY <2>1
  <2>5. ASSUME NEW n \in Minters, mints'[n].at # "idle", mints'[n].grant # Nobody
        PROVE  LET h == mints'[n].grant IN
               grants'[h].lock = n /\ grants'[h].status = "approved"
               /\ grants'[h].user = mints'[n].user
    BY <1>a, <2>1, <2>2, <2>3, <2>5
  <2> QED BY <2>4, <2>5
<1>4. ASSUME NEW m \in Minters, LockUser(m) PROVE GrantHeld'
  BY <1>0, <1>4 DEF LockUser, MintRow
<1>5. ASSUME NEW m \in Minters, Count(m) PROVE GrantHeld'
  BY <1>0, <1>5 DEF Count, MintRow
<1>6. ASSUME NEW m \in Minters, CommitMint(m) PROVE GrantHeld'
  <2>1. /\ mints'[m].at = "idle"
        /\ \A n \in Minters : n # m => mints'[n] = mints[n]
    BY <1>0, <1>6 DEF CommitMint, Released, IdleMint
  <2>2. CASE mints[m].grant = Nobody
    <3>1. UNCHANGED grants
      BY <1>6, <2>2 DEF CommitMint
    <3> QED BY <2>1, <3>1
  <2>3. CASE mints[m].grant # Nobody
    <3>1. PICK g \in Grants : g = mints[m].grant
      BY <1>6, <2>3, CommitShape
    <3>2. /\ \A h \in Grants : h # g => grants'[h] = grants[h]
          /\ grants'[g].user = grants[g].user
          /\ grants[g].lock = m /\ grants[g].status = "approved"
      <4>1. /\ Claimed(g) /\ mints[m].at # "idle"
        BY <1>6, <2>3, <3>1 DEF CommitMint
      <4> QED BY <1>0, <2>3, <3>1, <4>1 DEF Claimed, GrantRow
    <3>3. \A h \in Grants :
            grants'[h].status \in {"approved", "claimed"} => grants'[h].user \in Users
      BY <3>2
    <3>4. ASSUME NEW n \in Minters, mints'[n].at # "idle", mints'[n].grant # Nobody
          PROVE  LET h == mints'[n].grant IN
                 grants'[h].lock = n /\ grants'[h].status = "approved"
                 /\ grants'[h].user = mints'[n].user
      <4>1. n # m /\ mints'[n] = mints[n]
        BY <2>1, <3>4
      <4>2. mints[n].grant \in Grants /\ grants[mints[n].grant].lock = n
        BY <1>a, <3>4, <4>1
      <4>3. mints[n].grant # g
        BY <3>2, <4>1, <4>2
      <4> QED BY <3>2, <3>4, <4>1, <4>2, <4>3
    <3> QED BY <3>3, <3>4
  <2> QED BY <2>2, <2>3
<1>7. ASSUME NEW m \in Minters, RollBack(m) PROVE GrantHeld'
  <2>1. /\ mints'[m].at = "idle"
        /\ \A n \in Minters : n # m => mints'[n] = mints[n]
    BY <1>0, <1>7 DEF RollBack, Released, IdleMint
  <2>2. \A h \in Grants :
            /\ grants'[h].status = grants[h].status /\ grants'[h].user = grants[h].user
            /\ grants[h].lock # m => grants'[h] = grants[h]
    BY <1>0, <1>7 DEF RollBack, GrantRow
  <2>4. \A h \in Grants :
          grants'[h].status \in {"approved", "claimed"} => grants'[h].user \in Users
    BY <2>2
  <2>5. ASSUME NEW n \in Minters, mints'[n].at # "idle", mints'[n].grant # Nobody
        PROVE  LET h == mints'[n].grant IN
               grants'[h].lock = n /\ grants'[h].status = "approved"
               /\ grants'[h].user = mints'[n].user
    BY <1>a, <2>1, <2>2, <2>5
  <2> QED BY <2>4, <2>5
<1>8. ASSUME NEW g \in Grants, StartGrant(g) PROVE GrantHeld'
  <2>1. UNCHANGED mints /\ \A h \in Grants : grants[h].lock = Nobody
    BY <1>8 DEF StartGrant, Unlocked
  <2>2. \A h \in Grants : grants'[h].status \in {"approved", "claimed"} =>
            grants[h].status = grants'[h].status /\ grants'[h].user = grants[h].user
    <3> SUFFICES ASSUME NEW h \in Grants, grants'[h].status \in {"approved", "claimed"}
                 PROVE  grants[h].status = grants'[h].status
                        /\ grants'[h].user = grants[h].user
      OBVIOUS
    <3>1. grants[h] \in GrantRow
      BY <1>0
    <3>2. \/ grants'[h] = grants[h]
          \/ grants'[h] = [grants[h] EXCEPT !.status = "expired"]
          \/ grants'[h] = [grants[h] EXCEPT !.status = "pending", !.expires = mintNow + GrantTtl]
      BY <1>8 DEF StartGrant
    <3> QED BY <3>1, <3>2 DEF GrantRow
  <2>3. \A n \in Minters : mints[n].at # "idle" => mints[n].grant = Nobody
    BY <1>0, <1>a, <2>1
  <2>4. \A h \in Grants :
          grants'[h].status \in {"approved", "claimed"} => grants'[h].user \in Users
    BY <2>2
  <2> QED BY <2>1, <2>3, <2>4
<1>9. ASSUME NEW g \in Grants, PollExpired(g) PROVE GrantHeld'
  <2>1. /\ grants[g].lock = Nobody /\ UNCHANGED mints
        /\ \A h \in Grants : h # g => grants'[h] = grants[h]
        /\ grants'[g].status = "expired"
    BY <1>0, <1>9 DEF PollExpired, Unlocked, GrantRow
  <2> QED BY <1>0, <2>1 DEF MintRow
<1>10. ASSUME NEW g \in Grants, NEW u \in Users,
              Decide(g, u, "approved") \/ Decide(g, u, "denied")
       PROVE  GrantHeld'
  <2>1. /\ grants[g].lock = Nobody /\ UNCHANGED mints
        /\ \A h \in Grants : h # g => grants'[h] = grants[h]
    BY <1>0, <1>10 DEF Decide, Unlocked
  <2>2. grants'[g].status = "denied"
        \/ (grants'[g].status = "approved" /\ grants'[g].user = u)
    <3>1. CASE Decide(g, u, "approved")
      BY <1>0, <3>1 DEF Decide, GrantRow
    <3>2. CASE Decide(g, u, "denied")
      BY <1>0, <3>2 DEF Decide, GrantRow
    <3> QED BY <1>10, <3>1, <3>2
  <2> QED BY <1>0, <2>1, <2>2 DEF MintRow
<1>11. ASSUME UNCHANGED <<mints, grants>> PROVE GrantHeld'
  BY <1>11
<1> QED
  BY <1>1, <1>2, <1>3, <1>4, <1>5, <1>6, <1>7, <1>8, <1>9, <1>10, <1>11
     DEF KeysNext, SetFrozen, AdminMint, DisableKey, KeysTick

\* A claimed grant stays claimed.
LEMMA ClaimedStays ==
    ASSUME MintingTyped, RowHeld, GrantHeld, [KeysNext]_keysVars,
           NEW g \in Grants, grants[g].status = "claimed"
    PROVE  grants'[g].status = "claimed"
<1>0. grants \in [Grants -> GrantRow] /\ grants[g] \in GrantRow
  BY DEF MintingTyped
<1>1. ASSUME NEW m \in Minters, CommitMint(m) PROVE grants'[g].status = "claimed"
  <2>1. \/ UNCHANGED grants
        \/ Claimed(mints[m].grant) /\ mints[m].grant \in Grants
    BY <1>1, CommitShape DEF CommitMint
  <2> QED BY <1>0, <2>1 DEF Claimed, GrantRow
<1>2. ASSUME NEW m \in Minters, RollBack(m) PROVE grants'[g].status = "claimed"
  BY <1>0, <1>2 DEF RollBack, GrantRow
<1>3. ASSUME NEW m \in Minters, NEW h \in Grants, PollApproved(m, h)
      PROVE  grants'[g].status = "claimed"
  BY <1>0, <1>3 DEF PollApproved, GrantRow
<1>4. ASSUME NEW h \in Grants, StartGrant(h) PROVE grants'[g].status = "claimed"
  BY <1>0, <1>4 DEF StartGrant
<1>5. ASSUME NEW h \in Grants, PollExpired(h) PROVE grants'[g].status = "claimed"
  BY <1>0, <1>5 DEF PollExpired
<1>6. ASSUME NEW h \in Grants, NEW u \in Users,
             Decide(h, u, "approved") \/ Decide(h, u, "denied")
      PROVE  grants'[g].status = "claimed"
  BY <1>0, <1>6 DEF Decide
<1>7. ASSUME UNCHANGED grants PROVE grants'[g].status = "claimed"
  BY <1>7
<1> QED
  BY <1>1, <1>2, <1>3, <1>4, <1>5, <1>6, <1>7
     DEF KeysNext, keysVars, RequestKey, LockUser, Count, SetFrozen, AdminMint,
         DisableKey, KeysTick

\* A key is minted by the operator, or by a commit that claims its grant.
LEMMA NextMintedIsClaimed ==
    ASSUME MintingInv, [KeysNext]_keysVars
    PROVE  MintedIsClaimed'
<1>0. MintingTyped /\ RowHeld /\ GrantHeld /\ MintedIsClaimed
  BY DEF MintingInv
<1>1. ASSUME NEW k \in DOMAIN apiKeys, apiKeys'[k].via = apiKeys[k].via,
             apiKeys'[k].via \in Grants
      PROVE  grants'[apiKeys'[k].via].status = "claimed"
  BY <1>0, <1>1, ClaimedStays DEF MintedIsClaimed
<1>2. ASSUME NEW m \in Minters, CommitMint(m) PROVE MintedIsClaimed'
  <2> DEFINE n == Len(apiKeys) + 1
  <2>1. /\ DOMAIN apiKeys' = 1..n /\ DOMAIN apiKeys = 1..Len(apiKeys)
        /\ Len(apiKeys) \in Nat
        /\ \A k \in DOMAIN apiKeys : apiKeys'[k] = Disabled(m)[k]
        /\ apiKeys'[n].via = IF mints[m].grant = Nobody THEN "portal" ELSE mints[m].grant
    <3>1. PICK u : u = mints[m].user
      OBVIOUS
    <3>2. /\ DOMAIN apiKeys' = 1..n
          /\ \A k \in DOMAIN apiKeys : apiKeys'[k] = Disabled(m)[k]
          /\ apiKeys'[n] = NewKey(u, mints[m].name, IF mints[m].grant = Nobody
                                                      THEN "portal" ELSE mints[m].grant)
      BY <1>0, <1>2, <3>1, CommitShape
    <3> QED BY <1>0, <3>2, KeysTyped DEF NewKey
  <2>2. \A k \in DOMAIN apiKeys : Disabled(m)[k].via = apiKeys[k].via
    BY <1>0, DisabledKeeps
  <2>3. ASSUME apiKeys'[n].via \in Grants
        PROVE  grants'[apiKeys'[n].via].status = "claimed"
    <3>1. mints[m].grant \in Grants /\ Claimed(mints[m].grant)
          /\ apiKeys'[n].via = mints[m].grant
      BY <1>0, <1>2, <2>1, <2>3, CommitShape, MintingConstants DEF CommitMint
    <3> QED BY <1>0, <3>1 DEF Claimed, MintingTyped, GrantRow
  <2>4. \A k \in DOMAIN apiKeys' : k \in DOMAIN apiKeys \/ k = n
    BY <2>1
  <2> HIDE DEF n
  <2> QED BY <1>1, <2>1, <2>2, <2>3, <2>4 DEF MintedIsClaimed
<1>3. ASSUME NEW u \in Users, AdminMint(u) PROVE MintedIsClaimed'
  <2> DEFINE n == Len(apiKeys) + 1
  <2>1. /\ DOMAIN apiKeys' = 1..n /\ DOMAIN apiKeys = 1..Len(apiKeys)
        /\ Len(apiKeys) \in Nat
        /\ \A k \in DOMAIN apiKeys : apiKeys'[k] = apiKeys[k]
        /\ apiKeys'[n].via = "admin"
    <3>1. /\ DOMAIN apiKeys' = 1..n
          /\ \A k \in DOMAIN apiKeys : apiKeys'[k] = apiKeys[k]
          /\ apiKeys'[n] = NewKey(u, "named", "admin")
      BY <1>0, <1>3, AdminShape
    <3> QED BY <1>0, <3>1, KeysTyped DEF NewKey
  <2>2. \A k \in DOMAIN apiKeys' : k \in DOMAIN apiKeys \/ k = n
    BY <2>1
  <2> HIDE DEF n
  <2> QED BY <1>1, <2>1, <2>2, MintingConstants DEF MintedIsClaimed
<1>4. ASSUME NEW k \in DOMAIN apiKeys, DisableKey(k) PROVE MintedIsClaimed'
  <2>1. /\ DOMAIN apiKeys' = DOMAIN apiKeys
        /\ \A x \in DOMAIN apiKeys : apiKeys'[x].via = apiKeys[x].via
    BY <1>0, <1>4, DisableShape, KeysTyped DEF KeyRow
  <2> QED BY <1>1, <2>1 DEF MintedIsClaimed
<1>5. ASSUME UNCHANGED apiKeys PROVE MintedIsClaimed'
  BY <1>0, <1>1, <1>5 DEF MintedIsClaimed
<1> QED
  BY <1>2, <1>3, <1>4, <1>5
     DEF KeysNext, keysVars, RequestKey, PollApproved, LockUser, Count, RollBack,
         StartGrant, PollExpired, Decide, SetFrozen, KeysTick

\* What a mint counted is its user's, whose row it holds: a mint of another user,
\* a revocation or the clock can only leave fewer keys to count.
LEMMA NextStillAdmitted ==
    ASSUME MintingInv, MintingTyped', [KeysNext]_keysVars
    PROVE  StillAdmitted'
<1>0. MintingTyped /\ RowHeld /\ GrantHeld /\ StillAdmitted
  BY DEF MintingInv
<1>a. /\ mints \in [Minters -> MintRow] /\ mintNow \in Int /\ Nobody \notin Minters
      /\ rowLock \in [Users -> Minters \cup {Nobody}]
  BY <1>0, MintingConstants DEF MintingTyped
\* A mint other than the step's own.
<1>1. ASSUME NEW n \in Minters, mints[n].at = "inserting", mints'[n] = mints[n],
             \A k \in DOMAIN apiKeys' : apiKeys'[k].user = mints[n].user =>
                 /\ k \in DOMAIN apiKeys
                 /\ apiKeys[k].user = mints[n].user /\ apiKeys'[k].name = apiKeys[k].name
                 /\ apiKeys'[k].created = apiKeys[k].created
                 /\ apiKeys[k].disabled => apiKeys'[k].disabled,
             mintNow' >= mintNow,
             mints[n].user \in frozenUsers' => mints[n].user \in frozenUsers
      PROVE  MintAdmitted(n)'
  <2>1. MintAdmitted(n)
    BY <1>0, <1>1 DEF StillAdmitted
  <2>2. PICK u \in Users : u = mints[n].user
    BY <1>0, <1>1 DEF RowHeld
  <2>3. u \notin frozenUsers
    BY <2>1, <2>2 DEF MintAdmitted
  <2>4. u \notin frozenUsers'
    BY <1>1, <2>2, <2>3
  <2>5. \A k \in DOMAIN apiKeys' : apiKeys'[k].user = u =>
            /\ k \in DOMAIN apiKeys
            /\ apiKeys[k].user = u /\ apiKeys'[k].name = apiKeys[k].name
            /\ apiKeys'[k].created = apiKeys[k].created
            /\ apiKeys[k].disabled => apiKeys'[k].disabled
    BY <1>1, <2>2
  <2> QED BY <1>0, <1>1, <2>1, <2>2, <2>4, <2>5, AdmissionStands
<1>2. ASSUME UNCHANGED <<apiKeys, mintNow, frozenUsers>>, NEW n \in Minters,
             mints[n].at = "inserting", mints'[n] = mints[n]
      PROVE  MintAdmitted(n)'
  BY <1>1, <1>2, <1>a
\* Whoever holds another row mints for another user.
<1>3. ASSUME NEW m \in Minters, CommitMint(m), NEW n \in Minters, n # m,
             mints[n].at = "inserting"
      PROVE  MintAdmitted(n)'
  <2> DEFINE u == mints[m].user
             i == Len(apiKeys) + 1
  <2>1. u # mints[n].user
    BY <1>0, <1>3 DEF RowHeld, CommitMint
  <2>2. /\ DOMAIN apiKeys' = 1..i
        /\ \A k \in DOMAIN apiKeys : apiKeys'[k] = Disabled(m)[k]
        /\ apiKeys'[i].user = u
    <3>1. PICK w : w = u
      OBVIOUS
    <3>2. /\ DOMAIN apiKeys' = 1..i
          /\ \A k \in DOMAIN apiKeys : apiKeys'[k] = Disabled(m)[k]
          /\ apiKeys'[i] = NewKey(w, mints[m].name, IF mints[m].grant = Nobody
                                                      THEN "portal" ELSE mints[m].grant)
      BY <1>0, <1>3, <3>1, CommitShape
    <3> QED BY <3>1, <3>2 DEF NewKey
  <2>3. \A k \in DOMAIN apiKeys' : k \in DOMAIN apiKeys \/ k = i
    BY <1>0, <2>2, KeysTyped
  <2>4. \A k \in DOMAIN apiKeys :
            /\ Disabled(m)[k].user = apiKeys[k].user /\ Disabled(m)[k].name = apiKeys[k].name
            /\ Disabled(m)[k].created = apiKeys[k].created
            /\ apiKeys[k].disabled => Disabled(m)[k].disabled
    BY <1>0, DisabledKeeps
  <2>5. mints'[n] = mints[n] /\ UNCHANGED <<mintNow, frozenUsers>>
    BY <1>3, <1>a DEF CommitMint, Released
  <2> HIDE DEF i, u
  <2>6. \A k \in DOMAIN apiKeys' : apiKeys'[k].user = mints[n].user =>
            /\ k \in DOMAIN apiKeys
            /\ apiKeys[k].user = mints[n].user /\ apiKeys'[k].name = apiKeys[k].name
            /\ apiKeys'[k].created = apiKeys[k].created
            /\ apiKeys[k].disabled => apiKeys'[k].disabled
    BY <2>1, <2>2, <2>3, <2>4
  <2>7. mintNow' >= mintNow
    BY <2>5, <1>a
  <2> QED BY <1>1, <1>3, <2>5, <2>6, <2>7
<1>4. ASSUME NEW u \in Users, AdminMint(u), NEW n \in Minters,
             mints[n].at = "inserting"
      PROVE  MintAdmitted(n)'
  <2> DEFINE i == Len(apiKeys) + 1
  <2>1. u # mints[n].user
    BY <1>0, <1>4, <1>a DEF RowHeld, AdminMint
  <2>2. /\ DOMAIN apiKeys' = 1..i
        /\ \A k \in DOMAIN apiKeys : apiKeys'[k] = apiKeys[k]
        /\ apiKeys'[i] = NewKey(u, "named", "admin")
    BY <1>0, <1>4, AdminShape
  <2>3. apiKeys'[i].user = u
    BY <2>2 DEF NewKey
  <2>4. \A k \in DOMAIN apiKeys' : k \in DOMAIN apiKeys \/ k = i
    BY <1>0, <2>2, KeysTyped
  <2>5. mints'[n] = mints[n] /\ UNCHANGED <<mintNow, frozenUsers>>
    BY <1>4, <1>a DEF AdminMint
  <2> HIDE DEF i
  <2>6. \A k \in DOMAIN apiKeys' : apiKeys'[k].user = mints[n].user =>
            k \in DOMAIN apiKeys /\ apiKeys'[k] = apiKeys[k]
    BY <2>1, <2>2, <2>3, <2>4
  <2>7. mintNow' >= mintNow
    BY <2>5, <1>a
  <2> QED BY <1>1, <1>4, <2>5, <2>6, <2>7
<1>5. ASSUME NEW x \in DOMAIN apiKeys, DisableKey(x), NEW n \in Minters,
             mints[n].at = "inserting"
      PROVE  MintAdmitted(n)'
  <2>1. /\ DOMAIN apiKeys' = DOMAIN apiKeys
        /\ \A k \in DOMAIN apiKeys :
             apiKeys'[k] = IF k = x THEN [apiKeys[x] EXCEPT !.disabled = TRUE]
                           ELSE apiKeys[k]
    BY <1>0, <1>5, DisableShape
  <2>2. \A k \in DOMAIN apiKeys :
            /\ apiKeys'[k].user = apiKeys[k].user /\ apiKeys'[k].name = apiKeys[k].name
            /\ apiKeys'[k].created = apiKeys[k].created
            /\ apiKeys[k].disabled => apiKeys'[k].disabled
    BY <1>0, <2>1, KeysTyped DEF KeyRow
  <2>3. mints'[n] = mints[n] /\ UNCHANGED <<mintNow, frozenUsers>>
    BY <1>5 DEF DisableKey
  <2>4. mintNow' >= mintNow
    BY <2>3, <1>a
  <2> QED BY <1>1, <1>5, <2>1, <2>2, <2>3, <2>4
<1>6. ASSUME NEW u \in Users, SetFrozen(u), NEW n \in Minters,
             mints[n].at = "inserting"
      PROVE  MintAdmitted(n)'
  <2>1. u # mints[n].user
    BY <1>0, <1>6, <1>a DEF RowHeld, SetFrozen
  <2>2. /\ mints'[n] = mints[n] /\ UNCHANGED <<mintNow, apiKeys>>
        /\ frozenUsers' \in {frozenUsers \cup {u}, frozenUsers \ {u}}
    BY <1>6 DEF SetFrozen
  <2>3. mints[n].user \in frozenUsers' => mints[n].user \in frozenUsers
    BY <2>1, <2>2
  <2>4. mintNow' >= mintNow
    BY <2>2, <1>a
  <2> QED BY <1>1, <1>6, <2>2, <2>3, <2>4
<1>7. ASSUME KeysTick, NEW n \in Minters, mints[n].at = "inserting"
      PROVE  MintAdmitted(n)'
  <2>1. /\ mints'[n] = mints[n] /\ UNCHANGED <<apiKeys, frozenUsers>>
        /\ mintNow' >= mintNow
    BY <1>7, <1>a DEF KeysTick
  <2> QED BY <1>1, <1>7, <2>1
\* The step's own mint.
<1>8. ASSUME NEW m \in Minters, Count(m) PROVE StillAdmitted'
  <2>1. /\ \A n \in Minters : n # m => mints'[n] = mints[n]
        /\ mints'[m] = [mints[m] EXCEPT !.at = "inserting"]
        /\ UNCHANGED <<apiKeys, mintNow, frozenUsers>> /\ MintAdmitted(m)
    BY <1>8, <1>a DEF Count
  <2>2. mints'[m].user = mints[m].user /\ mints'[m].name = mints[m].name
    BY <2>1, <1>a DEF MintRow
  <2>3. MintAdmitted(m)'
    BY <2>1, <2>2 DEF MintAdmitted, LiveOf, Of, Recent, Replaced, Playground
  <2> QED BY <1>2, <2>1, <2>3 DEF StillAdmitted
<1>9. ASSUME NEW m \in Minters, UNCHANGED <<apiKeys, mintNow, frozenUsers>>,
             mints'[m].at # "inserting",
             \A n \in Minters : n # m => mints'[n] = mints[n]
      PROVE  StillAdmitted'
  BY <1>2, <1>9 DEF StillAdmitted
<1>10. ASSUME NEW m \in Minters,
              \/ LockUser(m) \/ RollBack(m)
              \/ \E u \in Users, name \in Names : RequestKey(m, u, name)
              \/ \E g \in Grants : PollApproved(m, g)
       PROVE  StillAdmitted'
  <2>1. /\ UNCHANGED <<apiKeys, mintNow, frozenUsers>> /\ mints'[m].at # "inserting"
        /\ \A n \in Minters : n # m => mints'[n] = mints[n]
    BY <1>10, <1>a
       DEF LockUser, RollBack, RequestKey, PollApproved, Released, IdleMint, MintRow
  <2> QED BY <1>9, <2>1
<1>11. ASSUME NEW m \in Minters, CommitMint(m) PROVE StillAdmitted'
  <2>1. /\ mints'[m].at = "idle"
        /\ \A n \in Minters : n # m => mints'[n] = mints[n]
    BY <1>11, <1>a DEF CommitMint, Released, IdleMint
  <2> QED BY <1>3, <1>11, <2>1 DEF StillAdmitted
<1>12. ASSUME UNCHANGED <<mints, apiKeys, mintNow, frozenUsers>> PROVE StillAdmitted'
  BY <1>2, <1>12 DEF StillAdmitted
<1>13. ASSUME UNCHANGED mints,
              \/ \E u \in Users : SetFrozen(u) \/ AdminMint(u)
              \/ \E x \in DOMAIN apiKeys : DisableKey(x)
              \/ KeysTick
       PROVE  StillAdmitted'
  BY <1>4, <1>5, <1>6, <1>7, <1>13 DEF StillAdmitted
<1> QED
  BY <1>8, <1>10, <1>11, <1>12, <1>13
     DEF KeysNext, keysVars, StartGrant, PollExpired, Decide, SetFrozen, AdminMint,
         DisableKey, KeysTick

LEMMA NextMintingInv ==
    ASSUME MintingInv, [KeysNext]_keysVars
    PROVE  MintingInv'
<1>1. MintingTyped /\ RowHeld /\ GrantHeld
  BY DEF MintingInv
<1>2. MintingTyped' /\ RowHeld' /\ GrantHeld'
  BY <1>1, NextMintingTyped, NextRowHeld, NextGrantHeld
<1>3. StillAdmitted' /\ MintedIsClaimed'
  BY <1>2, NextStillAdmitted, NextMintedIsClaimed
<1> QED BY <1>2, <1>3 DEF MintingInv

LEMMA OneMore ==
    ASSUME NEW S, IsFiniteSet(S), Cardinality(S) \in Nat, NEW x
    PROVE  IsFiniteSet(S \cup {x}) /\ Cardinality(S \cup {x}) <= Cardinality(S) + 1
<1>1. /\ IsFiniteSet(S \cup {x})
      /\ Cardinality(S \cup {x}) = IF x \in S THEN Cardinality(S) ELSE Cardinality(S) + 1
  BY FS_AddElement
<1> DEFINE c == Cardinality(S)
<1>2. c \in Nat
  OBVIOUS
<1> HIDE DEF c
<1>3. c <= c + 1 /\ c + 1 <= c + 1
  BY <1>2
<1> QED BY <1>1, <1>3 DEF c

\* A commit leaves its user within both caps.
LEMMA CommitFits ==
    ASSUME MintingInv, NEW m \in Minters, CommitMint(m), NEW u, u = mints[m].user
    PROVE  /\ Cardinality(LiveOf(u)') <= MaxActive
           /\ Cardinality(Recent(u)') <= MaxCreated
           /\ u \notin frozenUsers'
<1>0. MintingTyped /\ RowHeld /\ GrantHeld /\ MintAdmitted(m)
  BY DEF MintingInv, StillAdmitted, CommitMint
<1> DEFINE i == Len(apiKeys) + 1
           L == LiveOf(u) \ Replaced(m)
           R == Recent(u)
<1>1. /\ DOMAIN apiKeys' = 1..i
      /\ \A k \in DOMAIN apiKeys : apiKeys'[k] = Disabled(m)[k]
  BY <1>0, CommitShape
<1>2. \A k \in DOMAIN apiKeys' : k \in DOMAIN apiKeys \/ k = i
  BY <1>0, <1>1, KeysTyped
<1>3. \A k \in DOMAIN apiKeys :
          /\ Disabled(m)[k].user = apiKeys[k].user
          /\ Disabled(m)[k].created = apiKeys[k].created
          /\ k \in Replaced(m) => Disabled(m)[k].disabled
          /\ k \notin Replaced(m) => Disabled(m)[k] = apiKeys[k]
  BY <1>0, DisabledKeeps
<1>4. mintNow' = mintNow /\ frozenUsers' = frozenUsers
  BY DEF CommitMint
<1> HIDE DEF i
<1>5. LiveOf(u)' \subseteq L \cup {i}
  BY <1>1, <1>2, <1>3 DEF LiveOf, Of
<1>6. Recent(u)' \subseteq R \cup {i}
  BY <1>1, <1>2, <1>3, <1>4 DEF Recent, Of
<1>7. /\ L \subseteq DOMAIN apiKeys /\ R \subseteq DOMAIN apiKeys
      /\ Cardinality(L) < MaxActive /\ Cardinality(R) < MaxCreated
      /\ u \notin frozenUsers
  BY <1>0 DEF LiveOf, Of, Recent, MintAdmitted
<1> HIDE DEF L, R
<1>8. IsFiniteSet(L) /\ IsFiniteSet(R) /\ Cardinality(L) \in Nat /\ Cardinality(R) \in Nat
  BY <1>0, <1>7, CountedFinite
<1>a. IsFiniteSet(L \cup {i}) /\ Cardinality(L \cup {i}) <= Cardinality(L) + 1
  BY <1>8, OneMore
<1>b. IsFiniteSet(R \cup {i}) /\ Cardinality(R \cup {i}) <= Cardinality(R) + 1
  BY <1>8, OneMore
<1>9. /\ IsFiniteSet(L \cup {i}) /\ Cardinality(L \cup {i}) <= Cardinality(L) + 1
      /\ IsFiniteSet(R \cup {i}) /\ Cardinality(R \cup {i}) <= Cardinality(R) + 1
  BY <1>a, <1>b
<1>10. /\ Cardinality(L \cup {i}) \in Nat /\ Cardinality(R \cup {i}) \in Nat
       /\ Cardinality(LiveOf(u)') <= Cardinality(L \cup {i})
       /\ Cardinality(LiveOf(u)') \in Nat
       /\ Cardinality(Recent(u)') <= Cardinality(R \cup {i})
       /\ Cardinality(Recent(u)') \in Nat
  BY <1>5, <1>6, <1>9, FS_Subset, FS_CardinalityType
<1> QED BY <1>4, <1>7, <1>8, <1>9, <1>10, MintingConstants

\* Only the operator and a commit add a key, at the end.
LEMMA NextWithinLimits ==
    ASSUME MintingInv, [KeysNext]_keysVars
    PROVE  WithinLimits
<1>0. MintingTyped /\ RowHeld /\ GrantHeld /\ MintedIsClaimed
  BY DEF MintingInv
<1> DEFINE i == Len(apiKeys) + 1
<1>1. ASSUME DOMAIN apiKeys' = 1..i, NEW k \in DOMAIN apiKeys' \ DOMAIN apiKeys
      PROVE  k = i
  BY <1>0, <1>1, KeysTyped
<1>2. ASSUME DOMAIN apiKeys' = DOMAIN apiKeys PROVE WithinLimits
  BY <1>2 DEF WithinLimits
<1>3. ASSUME NEW m \in Minters, CommitMint(m) PROVE WithinLimits
  <2>1. PICK u : u = mints[m].user
    OBVIOUS
  <2>2. PICK via : via = IF mints[m].grant = Nobody THEN "portal" ELSE mints[m].grant
    OBVIOUS
  <2>3. /\ DOMAIN apiKeys' = 1..i
        /\ apiKeys'[i] = NewKey(u, mints[m].name, via)
        /\ mints[m].grant # Nobody => mints[m].grant \in Grants
    BY <1>0, <1>3, <2>1, <2>2, CommitShape
  <2>4. apiKeys'[i].user = u /\ apiKeys'[i].via = via
    BY <2>3 DEF NewKey
  <2>5. /\ Cardinality(LiveOf(u)') <= MaxActive
        /\ Cardinality(Recent(u)') <= MaxCreated
        /\ u \notin frozenUsers'
    BY <1>3, <2>1, CommitFits
  <2>6. ASSUME via \in Grants
        PROVE  /\ \A x \in DOMAIN apiKeys : apiKeys[x].via # via
               /\ grants'[via].status = "claimed" /\ grants'[via].user = u
    <3>1. via = mints[m].grant /\ mints[m].grant # Nobody /\ mints[m].at # "idle"
          /\ Claimed(via)
      BY <1>3, <2>2, <2>6, MintingConstants DEF CommitMint
    <3>2. grants[via].status = "approved" /\ grants[via].user = u
      BY <1>0, <2>1, <3>1 DEF GrantHeld
    <3>3. grants'[via].status = "claimed" /\ grants'[via].user = grants[via].user
      BY <1>0, <2>6, <3>1 DEF Claimed, MintingTyped, GrantRow
    <3>4. \A x \in DOMAIN apiKeys : apiKeys[x].via # via
      BY <1>0, <2>6, <3>2 DEF MintedIsClaimed
    <3> QED BY <3>2, <3>3, <3>4
  <2>7. \A k \in DOMAIN apiKeys' \ DOMAIN apiKeys : k = i
    BY <1>1, <2>3
  <2> HIDE DEF i
  <2> QED BY <2>4, <2>5, <2>6, <2>7 DEF WithinLimits
<1>4. ASSUME NEW u \in Users, AdminMint(u) PROVE WithinLimits
  <2>1. DOMAIN apiKeys' = 1..i /\ apiKeys'[i] = NewKey(u, "named", "admin")
    BY <1>0, <1>4, AdminShape
  <2>2. apiKeys'[i].via = "admin" /\ "admin" \notin Grants
    BY <2>1, MintingConstants DEF NewKey
  <2>3. \A k \in DOMAIN apiKeys' \ DOMAIN apiKeys : k = i
    BY <1>1, <2>1
  <2> HIDE DEF i
  <2> QED BY <2>2, <2>3 DEF WithinLimits
<1>5. ASSUME NEW k \in DOMAIN apiKeys, DisableKey(k) PROVE WithinLimits
  BY <1>0, <1>2, <1>5, DisableShape
<1>6. ASSUME UNCHANGED apiKeys PROVE WithinLimits
  BY <1>2, <1>6
<1> QED
  BY <1>3, <1>4, <1>5, <1>6
     DEF KeysNext, keysVars, RequestKey, PollApproved, LockUser, Count, RollBack,
         StartGrant, PollExpired, Decide, SetFrozen, KeysTick

\* The rows, the grants and the transactions of minting: the inductive invariant
\* (admit_key_mint, poll_device_token).
THEOREM MintingInvariant == KeysSpec => []MintingInv
BY InitMintingInv, NextMintingInv, PTL DEF KeysSpec

\* For any users, grants and number of mints at once: a mint leaves its user
\* within the cap on live keys and the throttle, none is for a frozen account, and
\* a device grant mints once, for who approved it, as the transaction that counts
\* holds the user's row (admit_key_mint, poll_device_token).
THEOREM MintsFit == KeysSpec => MintsWithinLimits
<1>1. MintingInv /\ [KeysNext]_keysVars => [WithinLimits]_keysVars
  BY NextWithinLimits
<1> QED BY <1>1, MintingInvariant, PTL DEF KeysSpec, MintsWithinLimits

-----------------------------------------------------------------------------
(* The authenticator's cache.  An entry is no later than what its row said   *)
(* when it was read, or its row has been edited since the lookup began.      *)

CachedRow == [disabled : BOOLEAN, expires : Int, edited : Int]
LookupRow == [at : {"missed", "read"}, router : Routers, key : CachedKeys,
              started : Int, expires : Int]

CacheTyped ==
    /\ cacheNow \in Int
    /\ keyRows \in [CachedKeys -> CachedRow]
    /\ cache \in [Routers -> [CachedKeys -> Int \cup {NoEntry}]]
    /\ lookups \in [Lookups -> LookupRow \cup {NoEntry}]

EditedBefore == \A k \in CachedKeys : keyRows[k].edited <= cacheNow

\* What a lookup that read its row knows of it.
Informed(look) ==
    /\ look.started <= cacheNow
    /\ look.at = "read" =>
         /\ look.started < look.expires
         /\ \/ ~keyRows[look.key].disabled /\ keyRows[look.key].expires = look.expires
            \/ look.started <= keyRows[look.key].edited

LookupsInformed ==
    \A l \in Lookups : lookups[l] # NoEntry => Informed(lookups[l])

\* Until when an entry may stand.
Bounded(deadline, k) ==
    /\ deadline <= cacheNow + CacheTtl
    /\ \/ ~keyRows[k].disabled /\ deadline <= keyRows[k].expires
       \/ deadline <= keyRows[k].edited + CacheTtl

EntriesBounded ==
    \A r \in Routers, k \in CachedKeys :
        cache[r][k] # NoEntry => Bounded(cache[r][k], k)

CacheInv == CacheTyped /\ EditedBefore /\ LookupsInformed /\ EntriesBounded

LEMMA CacheConstants ==
    CacheTtl \in Nat /\ CacheTtl > 0 /\ LastCacheTick \in Nat /\ Never \in Int
BY KeyCacheAssumption DEF Never

LEMMA InitCacheInv == CacheInit => CacheInv
<1> SUFFICES ASSUME CacheInit PROVE CacheInv
  OBVIOUS
<1>1. keyRows \in [CachedKeys -> CachedRow]
      /\ \A k \in CachedKeys : keyRows[k].edited = 0 - CacheTtl
  <2> DEFINE T == [disabled : {FALSE}, expires : {1, Never}, edited : {0 - CacheTtl}]
  <2>1. keyRows \in [CachedKeys -> T]
    BY DEF CacheInit
  <2>2. 0 - CacheTtl \in Int /\ 1 \in Int /\ Never \in Int
    BY CacheConstants
  <2>3. ASSUME NEW t \in T PROVE t \in CachedRow /\ t.edited = 0 - CacheTtl
    BY <2>2 DEF CachedRow
  <2> HIDE DEF T
  <2> QED BY <2>1, <2>3
<1>2. CacheTyped
  BY <1>1 DEF CacheInit, CacheTyped
<1>3. EditedBefore
  BY <1>1, CacheConstants DEF CacheInit, EditedBefore
<1>4. LookupsInformed /\ EntriesBounded
  BY DEF CacheInit, LookupsInformed, EntriesBounded
<1> QED BY <1>2, <1>3, <1>4 DEF CacheInv

\* The deadline a lookup stores.
LEMMA LeastOfTwo ==
    ASSUME NEW a \in Int, NEW b \in Int
    PROVE  /\ Min({a, b}) \in {a, b}
           /\ Min({a, b}) <= a /\ Min({a, b}) <= b
<1>1. \E x \in {a, b} : \A y \in {a, b} : x <= y
  <2>1. CASE a <= b
    BY <2>1
  <2>2. CASE b <= a
    BY <2>2
  <2> QED BY <2>1, <2>2
<1> QED BY <1>1 DEF Min

LEMMA DeadlineBounded ==
    ASSUME CacheTyped, NEW started \in Int, NEW expires \in Int,
           started <= cacheNow, started < expires
    PROVE  /\ EntryDeadline(started, expires) \in Int
           /\ EntryDeadline(started, expires) <= started + CacheTtl
           /\ EntryDeadline(started, expires) <= expires
<1>1. cacheNow \in Int /\ CacheTtl \in Int /\ CacheTtl > 0
  BY CacheConstants DEF CacheTyped
<1>2. CASE expires <= cacheNow
  BY <1>1, <1>2 DEF EntryDeadline
<1>3. CASE ~(expires <= cacheNow)
  <2> DEFINE left == expires - cacheNow
             least == Min({CacheTtl, left})
  <2>1. left \in Int
    BY <1>1
  <2>2. least \in Int /\ least <= CacheTtl /\ least <= left
    <3> HIDE DEF left
    <3> QED BY <1>1, <2>1, LeastOfTwo
  <2>3. EntryDeadline(started, expires) = started + least
    BY <1>3 DEF EntryDeadline
  <2> HIDE DEF least
  <2> QED BY <1>1, <2>2, <2>3
<1> QED BY <1>2, <1>3

\* Editing a row frees nothing that was read of it.
LEMMA EditKeeps ==
    ASSUME CacheInv, NEW k \in CachedKeys, UNCHANGED <<cacheNow, cache, lookups>>,
           NEW row \in CachedRow, row.edited = cacheNow,
           keyRows' = [keyRows EXCEPT ![k] = row]
    PROVE  CacheInv'
<1>0. /\ CacheTyped /\ EditedBefore /\ LookupsInformed /\ EntriesBounded
      /\ cacheNow \in Int /\ CacheTtl \in Int
  BY CacheConstants DEF CacheInv, CacheTyped
<1>1. CacheTyped'
  BY <1>0 DEF CacheTyped
<1>2. /\ keyRows'[k].edited = cacheNow
      /\ \A x \in CachedKeys : x # k => keyRows'[x] = keyRows[x]
  BY <1>0 DEF CacheTyped
<1>3. EditedBefore'
  BY <1>0, <1>2 DEF EditedBefore
<1>4. ASSUME NEW l \in Lookups, lookups[l] # NoEntry PROVE Informed(lookups[l])'
  <2>1. Informed(lookups[l]) /\ lookups[l].key \in CachedKeys
    BY <1>0, <1>4 DEF LookupsInformed, CacheTyped, LookupRow
  <2> QED BY <1>2, <2>1 DEF Informed
<1>5. ASSUME NEW r \in Routers, NEW x \in CachedKeys, cache[r][x] # NoEntry
      PROVE  Bounded(cache[r][x], x)'
  <2>1. Bounded(cache[r][x], x)
    BY <1>0, <1>5 DEF EntriesBounded
  <2> QED BY <1>2, <2>1 DEF Bounded
<1>6. LookupsInformed' /\ EntriesBounded'
  BY <1>4, <1>5 DEF LookupsInformed, EntriesBounded
<1> QED BY <1>1, <1>3, <1>6 DEF CacheInv

LEMMA NextCacheInv ==
    ASSUME CacheInv, [CacheNext]_cacheVars
    PROVE  CacheInv'
<1>0. /\ CacheTyped /\ EditedBefore /\ LookupsInformed /\ EntriesBounded
      /\ cacheNow \in Int /\ CacheTtl \in Int
      /\ keyRows \in [CachedKeys -> CachedRow]
      /\ cache \in [Routers -> [CachedKeys -> Int \cup {NoEntry}]]
      /\ lookups \in [Lookups -> LookupRow \cup {NoEntry}]
  BY CacheConstants DEF CacheInv, CacheTyped
\* A lookup that begins, reads, ends.
<1>1. ASSUME UNCHANGED <<cacheNow, keyRows, cache>>, NEW l \in Lookups,
             NEW look \in LookupRow \cup {NoEntry},
             look # NoEntry => Informed(look),
             lookups' = [lookups EXCEPT ![l] = look]
      PROVE  CacheInv'
  <2>1. CacheTyped' /\ EditedBefore' /\ EntriesBounded'
    BY <1>0, <1>1 DEF CacheTyped, EditedBefore, EntriesBounded, Bounded
  <2>2. LookupsInformed'
    BY <1>0, <1>1 DEF LookupsInformed, Informed
  <2> QED BY <2>1, <2>2 DEF CacheInv
<1>2. ASSUME NEW l \in Lookups, NEW r \in Routers, NEW k \in CachedKeys, Begin(l, r, k)
      PROVE  CacheInv'
  <2> DEFINE look == [at |-> "missed", router |-> r, key |-> k,
                      started |-> cacheNow, expires |-> Never]
  <2>1. look \in LookupRow /\ Informed(look)
    BY <1>0, CacheConstants DEF LookupRow, Informed
  <2>2. lookups' = [lookups EXCEPT ![l] = look] /\ UNCHANGED <<cacheNow, keyRows, cache>>
    BY <1>2 DEF Begin
  <2> HIDE DEF look
  <2> QED BY <1>1, <2>1, <2>2
<1>3. ASSUME NEW l \in Lookups, ReadRow(l) PROVE CacheInv'
  <2> DEFINE k == lookups[l].key
             look == IF UsableRow(k)
                       THEN [lookups[l] EXCEPT !.at = "read", !.expires = keyRows[k].expires]
                       ELSE NoEntry
  <2>1. /\ lookups[l] \in LookupRow /\ Informed(lookups[l]) /\ k \in CachedKeys
        /\ keyRows[k] \in CachedRow
    BY <1>0, <1>3 DEF ReadRow, LookupsInformed, LookupRow
  <2>2. look \in LookupRow \cup {NoEntry}
    BY <2>1 DEF LookupRow, CachedRow
  <2>3. ASSUME look # NoEntry PROVE Informed(look)
    <3>1. ~keyRows[k].disabled /\ keyRows[k].expires > cacheNow
      BY <2>3 DEF UsableRow
    <3>2. /\ look.started = lookups[l].started /\ look.key = k /\ look.at = "read"
          /\ look.expires = keyRows[k].expires
      BY <2>1, <2>3 DEF LookupRow
    <3>3. lookups[l].started \in Int /\ keyRows[k].expires \in Int
          /\ lookups[l].started <= cacheNow
      BY <2>1 DEF LookupRow, CachedRow, Informed
    <3>4. look.started < look.expires /\ look.started <= cacheNow
      BY <1>0, <3>1, <3>2, <3>3
    <3> HIDE DEF look
    <3> QED BY <3>1, <3>2, <3>4 DEF Informed
  <2>4. lookups' = [lookups EXCEPT ![l] = look] /\ UNCHANGED <<cacheNow, keyRows, cache>>
    BY <1>3 DEF ReadRow
  <2> HIDE DEF look
  <2> QED BY <1>1, <2>2, <2>3, <2>4
<1>4. ASSUME NEW l \in Lookups, HangUp(l) PROVE CacheInv'
  BY <1>1, <1>4 DEF HangUp
<1>5. ASSUME NEW l \in Lookups, Store(l) PROVE CacheInv'
  <2> DEFINE look == lookups[l]
             deadline == EntryDeadline(look.started, look.expires)
  <2>1. look \in LookupRow /\ Informed(look) /\ look.at = "read"
    BY <1>0, <1>5 DEF Store, LookupsInformed
  <2>2. /\ look.router \in Routers /\ look.key \in CachedKeys
        /\ look.started \in Int /\ look.expires \in Int
        /\ look.started <= cacheNow /\ look.started < look.expires
    BY <2>1 DEF LookupRow, Informed
  <2>3. /\ deadline \in Int /\ deadline <= look.started + CacheTtl
        /\ deadline <= look.expires
    BY <1>0, <2>2, DeadlineBounded
  <2>4. keyRows[look.key].edited \in Int /\ keyRows[look.key].expires \in Int
    BY <1>0, <2>2 DEF CachedRow
  <2> DEFINE kept == [j \in CachedKeys |->
                        IF cache[look.router][j] # NoEntry
                           /\ cache[look.router][j] > look.started
                          THEN cache[look.router][j] ELSE NoEntry]
  <2>5. /\ cache' = [cache EXCEPT ![look.router] = [kept EXCEPT ![look.key] = deadline]]
        /\ lookups' = [lookups EXCEPT ![l] = NoEntry] /\ UNCHANGED <<cacheNow, keyRows>>
    BY <1>5 DEF Store
  <2>6. kept \in [CachedKeys -> Int \cup {NoEntry}]
        /\ \A j \in CachedKeys : kept[j] # NoEntry => kept[j] = cache[look.router][j]
    BY <1>0, <2>2
  <2>7. Bounded(deadline, look.key)
    <3> HIDE DEF deadline
    <3>1. deadline <= cacheNow + CacheTtl
      BY <1>0, <2>2, <2>3
    <3>2. CASE ~keyRows[look.key].disabled /\ keyRows[look.key].expires = look.expires
      BY <2>3, <3>1, <3>2 DEF Bounded
    <3>3. CASE look.started <= keyRows[look.key].edited
      BY <1>0, <2>2, <2>3, <2>4, <3>1, <3>3 DEF Bounded
    <3> QED BY <2>1, <3>2, <3>3 DEF Informed
  <2> HIDE DEF deadline, kept
  <2>8. cache' \in [Routers -> [CachedKeys -> Int \cup {NoEntry}]]
    BY <1>0, <2>2, <2>3, <2>5, <2>6
  <2>9. CacheTyped' /\ EditedBefore'
    BY <1>0, <2>5, <2>8 DEF CacheTyped, EditedBefore
  <2>10. LookupsInformed'
    BY <1>0, <2>5 DEF LookupsInformed, Informed
  <2>11. EntriesBounded'
    <3>1. ASSUME NEW r \in Routers, NEW k \in CachedKeys, cache'[r][k] # NoEntry
          PROVE  Bounded(cache'[r][k], k)
      <4>1. (r = look.router /\ k = look.key /\ cache'[r][k] = deadline)
            \/ (cache[r][k] # NoEntry /\ cache'[r][k] = cache[r][k])
        BY <1>0, <2>2, <2>5, <2>6, <3>1
      <4> QED BY <1>0, <2>7, <4>1 DEF EntriesBounded
    <3> QED BY <2>5, <3>1 DEF EntriesBounded, Bounded
  <2> QED BY <2>9, <2>10, <2>11 DEF CacheInv
<1>6. ASSUME NEW r \in Routers, Restart(r) PROVE CacheInv'
  <2>1. /\ cache' = [cache EXCEPT ![r] = [k \in CachedKeys |-> NoEntry]]
        /\ UNCHANGED <<cacheNow, keyRows>>
        /\ lookups' \in [Lookups -> LookupRow \cup {NoEntry}]
        /\ \A l \in Lookups : lookups'[l] # NoEntry => lookups'[l] = lookups[l]
    BY <1>0, <1>6 DEF Restart
  <2>2. /\ cache' \in [Routers -> [CachedKeys -> Int \cup {NoEntry}]]
        /\ \A s \in Routers, k \in CachedKeys :
             cache'[s][k] # NoEntry => cache'[s][k] = cache[s][k]
    BY <1>0, <2>1
  <2>3. CacheTyped' /\ EditedBefore'
    BY <1>0, <2>1, <2>2 DEF CacheTyped, EditedBefore
  <2>4. LookupsInformed'
    BY <1>0, <2>1 DEF LookupsInformed, Informed
  <2>5. EntriesBounded'
    BY <1>0, <2>1, <2>2 DEF EntriesBounded, Bounded
  <2> QED BY <2>3, <2>4, <2>5 DEF CacheInv
<1>7. ASSUME NEW k \in CachedKeys, DisableRow(k) PROVE CacheInv'
  <2> DEFINE row == [keyRows[k] EXCEPT !.disabled = TRUE, !.edited = cacheNow]
  <2>1. row \in CachedRow /\ row.edited = cacheNow
    BY <1>0 DEF CachedRow
  <2>2. keyRows' = [keyRows EXCEPT ![k] = row] /\ UNCHANGED <<cacheNow, cache, lookups>>
    BY <1>0, <1>7 DEF DisableRow, CachedRow
  <2> HIDE DEF row
  <2> QED BY <2>1, <2>2, EditKeeps
<1>8. ASSUME NEW k \in CachedKeys, NEW expires \in Int, Reschedule(k, expires)
      PROVE  CacheInv'
  <2> DEFINE row == [keyRows[k] EXCEPT !.expires = expires, !.edited = cacheNow]
  <2>1. row \in CachedRow /\ row.edited = cacheNow
    BY <1>0 DEF CachedRow
  <2>2. keyRows' = [keyRows EXCEPT ![k] = row] /\ UNCHANGED <<cacheNow, cache, lookups>>
    BY <1>0, <1>8 DEF Reschedule, CachedRow
  <2> HIDE DEF row
  <2> QED BY <2>1, <2>2, EditKeeps
<1>9. CASE CacheTick
  <2>1. cacheNow' = cacheNow + 1 /\ UNCHANGED <<keyRows, cache, lookups>>
    BY <1>9 DEF CacheTick
  <2>2. CacheTyped'
    BY <1>0, <2>1 DEF CacheTyped
  <2>3. EditedBefore'
    BY <1>0, <2>1 DEF EditedBefore, CachedRow
  <2>4. ASSUME NEW l \in Lookups, lookups[l] # NoEntry PROVE Informed(lookups[l])'
    <3>1. Informed(lookups[l]) /\ lookups[l].started \in Int
      BY <1>0, <2>4 DEF LookupsInformed, LookupRow
    <3>2. lookups[l].started <= cacheNow'
      BY <1>0, <2>1, <3>1 DEF Informed
    <3> QED BY <2>1, <3>1, <3>2 DEF Informed
  <2>5. ASSUME NEW r \in Routers, NEW k \in CachedKeys, cache[r][k] # NoEntry
        PROVE  Bounded(cache[r][k], k)'
    <3>1. Bounded(cache[r][k], k) /\ cache[r][k] \in Int
      BY <1>0, <2>5 DEF EntriesBounded
    <3>2. cache[r][k] <= cacheNow' + CacheTtl
      BY <1>0, <2>1, <3>1 DEF Bounded
    <3> QED BY <2>1, <3>1, <3>2 DEF Bounded
  <2>6. LookupsInformed' /\ EntriesBounded'
    BY <2>1, <2>4, <2>5 DEF LookupsInformed, EntriesBounded
  <2> QED BY <2>2, <2>3, <2>6 DEF CacheInv
<1>10. CASE UNCHANGED cacheVars
  BY <1>0, <1>10
     DEF cacheVars, CacheInv, CacheTyped, EditedBefore, LookupsInformed, Informed,
         EntriesBounded, Bounded
<1>11. cacheNow + 1 \in Int /\ Never \in Int
  BY <1>0, CacheConstants
<1> QED
  BY <1>2, <1>3, <1>4, <1>5, <1>6, <1>7, <1>8, <1>9, <1>10, <1>11 DEF CacheNext

\* Entries and lookups in flight against the rows they read: the inductive
\* invariant (authenticate).
THEOREM CacheInvariant == CacheSpec => []CacheInv
BY InitCacheInv, NextCacheInv, PTL DEF CacheSpec

\* A key its owner revoked or shortened is served for less than one CACHE_TTL
\* more, for any number of processes, lookups and edits, and however slow a
\* lookup is (authenticate).
LEMMA CacheIsFresh == CacheInv => StalenessBounded
<1> SUFFICES ASSUME CacheInv, NEW r \in Routers, NEW k \in CachedKeys,
                    ServedFrom(r, k), ~UsableRow(k)
             PROVE  cacheNow < keyRows[k].edited + CacheTtl
  BY DEF StalenessBounded
<1>1. /\ Bounded(cache[r][k], k) /\ cache[r][k] \in Int /\ keyRows[k] \in CachedRow
      /\ cacheNow \in Int /\ CacheTtl \in Int /\ cache[r][k] > cacheNow
  BY CacheConstants DEF CacheInv, EntriesBounded, CacheTyped, ServedFrom
<1>2. keyRows[k].expires \in Int /\ keyRows[k].edited \in Int
  BY <1>1 DEF CachedRow
<1> QED BY <1>1, <1>2 DEF Bounded, UsableRow

-----------------------------------------------------------------------------
(* The lane's token.  Clocks at the mutex are in order of arrival, so what    *)
(* its holder cannot use nobody behind it can, and what an exchange leaves in *)
(* the cell is spent on those behind it before the clock moves.               *)

TokenRow == [until : Int, dies : Int]
AskerRow ==
    [at : {"new", "without"}] \cup [at : {"waiting"}, clock : Int]
    \cup [at : {"minting"}, clock : Int, since : Int]
    \cup [at : {"served"}, token : TokenRow, when : Int, cached : BOOLEAN]

TokenTyped ==
    /\ tokenNow \in Int
    /\ cell \in TokenRow \cup {Empty}
    /\ requests \in [Askers -> AskerRow]

AtMutex(r) == requests[r].at \in {"waiting", "minting"}

\* Who waits is in the queue, once, in the order of the clocks.
Queued ==
    /\ queue \in Seq(Askers)
    /\ \A r \in Askers : AtMutex(r) <=> \E i \in DOMAIN queue : queue[i] = r
    /\ \A i, j \in DOMAIN queue : i < j =>
         /\ queue[i] # queue[j]
         /\ requests[queue[i]].clock <= requests[queue[j]].clock
    /\ \A r \in Askers : requests[r].at = "minting" => queue[1] = r

\* No clock is ahead, and no exchange is older than its timeout.
Timed ==
    \A r \in Askers :
        /\ AtMutex(r) => requests[r].clock <= tokenNow
        /\ requests[r].at = "minting" =>
             /\ requests[r].clock <= requests[r].since
             /\ requests[r].since <= tokenNow
             /\ tokenNow <= requests[r].since + Timeout
        /\ requests[r].at = "served" => requests[r].when <= tokenNow

\* What the cell is worth to those at the mutex.
CellSound ==
    /\ cell # Empty => cell.until <= cell.dies
    /\ \A r \in Askers : requests[r].at = "minting" => ~CellServes(r)
    /\ \A r \in Askers : requests[r].at = "waiting" /\ CellServes(r) =>
         cell.dies - tokenNow > Skew - Timeout

\* A token paid for and still good at some clock is in the cell, or a later one.
InCell(token) == cell # Empty /\ token.until <= cell.until

PaidFor ==
    \A s \in Askers : requests[s].at = "served" /\ ~requests[s].cached =>
        LET token == requests[s].token IN
        /\ token.until - Skew > requests[s].when => InCell(token)
        /\ \A r \in Askers :
             /\ AtMutex(r) /\ requests[r].clock <= requests[s].when
             /\ token.until - Skew > requests[r].clock
             => InCell(token)

TokenInv == TokenTyped /\ Queued /\ Timed /\ CellSound /\ PaidFor /\ ServedAlive

LEMMA TokenConstants ==
    Skew \in Int /\ Timeout \in Int /\ Timeout >= 0 /\ Lifetimes \subseteq Int
    /\ \A n \in Lifetimes : n >= 0
    /\ Empty \notin TokenRow
BY TokensAssumption DEF TokenRow

LEMMA InitTokenInv == TokenInit => TokenInv
<1> SUFFICES ASSUME TokenInit PROVE TokenInv
  OBVIOUS
<1>1. /\ \A r \in Askers : requests[r].at = "new"
      /\ tokenNow = 0 /\ cell = Empty /\ queue = <<>>
      /\ requests \in [Askers -> AskerRow]
  BY DEF TokenInit, AskerRow
<1>2. queue \in Seq(Askers) /\ DOMAIN queue = {}
  BY <1>1
<1> QED
  BY <1>1, <1>2
     DEF TokenInv, TokenTyped, Queued, AtMutex, Timed, CellSound, CellServes, PaidFor,
         ServedAlive

\* What the state of a request says of its fields.
LEMMA AskerTyped ==
    ASSUME TokenTyped, NEW r \in Askers
    PROVE  /\ requests[r].at \in {"new", "without", "waiting", "minting", "served"}
           /\ AtMutex(r) => requests[r].clock \in Int
           /\ requests[r].at = "minting" => requests[r].since \in Int
           /\ requests[r].at = "served" =>
                /\ requests[r].token \in TokenRow /\ requests[r].when \in Int
                /\ requests[r].token.until \in Int /\ requests[r].token.dies \in Int
                /\ requests[r].cached \in BOOLEAN
<1>1. requests[r] \in AskerRow
  BY DEF TokenTyped
<1> QED BY <1>1 DEF AskerRow, AtMutex, TokenRow

LEMMA CellTyped ==
    ASSUME TokenTyped, cell # Empty
    PROVE  cell \in TokenRow /\ cell.until \in Int /\ cell.dies \in Int
BY DEF TokenTyped, TokenRow

LEMMA QueueTyped ==
    ASSUME Queued
    PROVE  /\ Len(queue) \in Nat /\ DOMAIN queue = 1..Len(queue)
           /\ \A i \in DOMAIN queue : queue[i] \in Askers /\ AtMutex(queue[i])
<1>1. /\ Len(queue) \in Nat /\ DOMAIN queue = 1..Len(queue)
      /\ \A i \in DOMAIN queue : queue[i] \in Askers
  BY DEF Queued
<1> QED BY <1>1 DEF Queued

\* The holder of the mutex has the oldest clock.
LEMMA HolderIsOldest ==
    ASSUME TokenTyped, Queued, NEW r \in Askers, NEW q \in Askers, AtMutex(r), AtMutex(q),
           queue[1] = r
    PROVE  requests[r].clock <= requests[q].clock
<1>1. PICK i \in DOMAIN queue : queue[i] = q
  BY DEF Queued
<1>2. i \in Nat /\ i >= 1 /\ 1 \in DOMAIN queue
  BY QueueTyped
<1>3. requests[r].clock \in Int
  BY AskerTyped
<1>4. CASE i = 1
  BY <1>1, <1>3, <1>4
<1>5. CASE 1 < i
  BY <1>1, <1>2, <1>5 DEF Queued
<1> QED BY <1>2, <1>4, <1>5

\* What one clock cannot use a later one cannot.
LEMMA NotForLater ==
    ASSUME TokenTyped, NEW r \in Askers, NEW q \in Askers, AtMutex(r), AtMutex(q),
           requests[r].clock <= requests[q].clock, ~CellServes(r)
    PROVE  ~CellServes(q)
<1>1. requests[r].clock \in Int /\ requests[q].clock \in Int
  BY AskerTyped
<1>2. CASE cell = Empty
  BY <1>2 DEF CellServes
<1>3. CASE cell # Empty
  <2>1. cell.until \in Int /\ Skew \in Int
    BY <1>3, CellTyped, TokenConstants
  <2> QED BY <1>1, <1>3, <2>1 DEF CellServes, Usable
<1> QED BY <1>2, <1>3

\* A request that leaves the queue leaves the others in their order.
LEMMA QueueShrinks ==
    ASSUME TokenTyped, Queued, NEW i \in DOMAIN queue, queue' = Without(i),
           NEW r \in Askers, r = queue[i],
           \A q \in Askers : q # r => requests'[q] = requests[q],
           ~(requests'[r].at \in {"waiting", "minting"}),
           \A q \in Askers : q # r /\ i = 1 => requests[q].at # "minting"
    PROVE  Queued'
<1> DEFINE n == Len(queue) - 1
<1>1. /\ Len(queue) \in Nat /\ DOMAIN queue = 1..Len(queue) /\ i \in 1..Len(queue)
      /\ \A j \in DOMAIN queue : queue[j] \in Askers
      /\ n \in Nat
  BY QueueTyped
<1>2. /\ queue' = [j \in 1..n |-> IF j < i THEN queue[j] ELSE queue[j + 1]]
  BY DEF Without
<1>3. /\ queue' \in Seq(Askers) /\ DOMAIN queue' = 1..n
      /\ \A j \in 1..n : queue'[j] = IF j < i THEN queue[j] ELSE queue[j + 1]
  BY <1>1, <1>2
\* The old place of a request now at j.
<1> DEFINE Old(j) == IF j < i THEN j ELSE j + 1
<1>4. \A j \in 1..n : /\ Old(j) \in DOMAIN queue /\ Old(j) # i
                      /\ queue'[j] = queue[Old(j)]
  BY <1>1, <1>3
<1>5. \A j, k \in 1..n : j < k => Old(j) < Old(k)
  BY <1>1
<1>6. \A j \in 1..n : queue'[j] # r /\ queue'[j] \in Askers
                      /\ requests'[queue'[j]] = requests[queue'[j]]
  <2> SUFFICES ASSUME NEW j \in 1..n
               PROVE  queue'[j] # r /\ queue'[j] \in Askers
                      /\ requests'[queue'[j]] = requests[queue'[j]]
    OBVIOUS
  <2>1. Old(j) \in DOMAIN queue /\ (Old(j) < i \/ i < Old(j)) /\ queue'[j] = queue[Old(j)]
    BY <1>1, <1>4
  <2> HIDE DEF Old
  <2>2. queue[Old(j)] # queue[i]
    BY <2>1 DEF Queued
  <2> QED BY <1>1, <2>1, <2>2
<1>7. ASSUME NEW q \in Askers
      PROVE  AtMutex(q)' <=> \E j \in DOMAIN queue' : queue'[j] = q
  <2>1. CASE q = r
    BY <1>3, <1>6, <2>1 DEF AtMutex
  <2>2. ASSUME q # r, AtMutex(q)' PROVE \E j \in DOMAIN queue' : queue'[j] = q
    <3>1. AtMutex(q)
      BY <2>2 DEF AtMutex
    <3>2. PICK k \in DOMAIN queue : queue[k] = q
      BY <3>1 DEF Queued
    <3>3. k # i
      BY <2>2, <3>2
    <3>4. CASE k < i
      <4>1. k \in 1..n /\ queue'[k] = queue[k]
        BY <1>1, <1>3, <3>4
      <4> QED BY <1>3, <3>2, <4>1
    <3>5. CASE i < k
      <4>1. k - 1 \in 1..n /\ queue'[k - 1] = queue[(k - 1) + 1] /\ (k - 1) + 1 = k
        BY <1>1, <1>3, <3>5
      <4> QED BY <1>3, <3>2, <4>1
    <3> QED BY <1>1, <3>3, <3>4, <3>5
  <2>3. ASSUME q # r, NEW j \in DOMAIN queue', queue'[j] = q PROVE AtMutex(q)'
    <3>1. Old(j) \in DOMAIN queue /\ queue[Old(j)] = q
      BY <1>3, <1>4, <2>3
    <3> HIDE DEF Old
    <3>2. AtMutex(q)
      BY <3>1 DEF Queued
    <3> QED BY <2>3, <3>2 DEF AtMutex
  <2> QED BY <2>1, <2>2, <2>3
<1>8. ASSUME NEW j \in DOMAIN queue', NEW k \in DOMAIN queue', j < k
      PROVE  /\ queue'[j] # queue'[k]
             /\ requests'[queue'[j]].clock <= requests'[queue'[k]].clock
  <2>1. /\ Old(j) \in DOMAIN queue /\ Old(k) \in DOMAIN queue /\ Old(j) < Old(k)
        /\ queue'[j] = queue[Old(j)] /\ queue'[k] = queue[Old(k)]
        /\ requests'[queue'[j]] = requests[queue'[j]]
        /\ requests'[queue'[k]] = requests[queue'[k]]
    BY <1>3, <1>4, <1>5, <1>6, <1>8
  <2> HIDE DEF Old
  <2> QED BY <2>1 DEF Queued
<1>9. ASSUME NEW q \in Askers, requests'[q].at = "minting" PROVE queue'[1] = q
  <2>1. q # r /\ requests[q].at = "minting"
    BY <1>9
  <2>2. queue[1] = q /\ i # 1
    BY <2>1 DEF Queued
  <2>3. 1 < i /\ 1 \in 1..n
    BY <1>1, <2>2
  <2> QED BY <1>3, <2>2, <2>3
<1> QED BY <1>3, <1>7, <1>8, <1>9 DEF Queued

\* Letting go of the mutex is leaving from the front.
LEMMA TailIsWithout ==
    ASSUME Queued, queue # <<>>
    PROVE  Tail(queue) = Without(1) /\ 1 \in DOMAIN queue /\ Head(queue) = queue[1]
<1>1. queue \in Seq(Askers) /\ Len(queue) \in Nat /\ Len(queue) >= 1
  BY DEF Queued
<1>2. /\ Tail(queue) \in Seq(Askers) /\ Len(Tail(queue)) = Len(queue) - 1
      /\ \A j \in 1..(Len(queue) - 1) : Tail(queue)[j] = queue[j + 1]
  BY <1>1
<1>3. Tail(queue) = [j \in 1..(Len(queue) - 1) |-> Tail(queue)[j]]
  <2> DEFINE s == Tail(queue)
  <2>1. s \in [1..Len(s) -> Askers] /\ Len(s) = Len(queue) - 1
    BY <1>2, LenProperties
  <2> HIDE DEF s
  <2>2. s = [j \in 1..Len(s) |-> s[j]]
    BY <2>1
  <2>3. s = [j \in 1..(Len(queue) - 1) |-> s[j]]
    BY <2>1, <2>2
  <2> QED BY <2>3 DEF s
<1>4. Without(1) = [j \in 1..(Len(queue) - 1) |-> queue[j + 1]]
  BY <1>1 DEF Without
<1> QED BY <1>1, <1>2, <1>3, <1>4

\* A request that leaves without the lane disturbs nothing but the queue.
LEMMA WithoutKeeps ==
    ASSUME TokenInv, NEW r \in Askers, Moves(r, [at |-> "without"]),
           UNCHANGED <<tokenNow, cell>>
    PROVE  TokenTyped' /\ Timed' /\ CellSound' /\ PaidFor' /\ ServedAlive'
<1>1. TokenTyped /\ Timed /\ CellSound /\ PaidFor /\ ServedAlive
  BY DEF TokenInv
<1>2. /\ requests'[r].at = "without"
      /\ \A q \in Askers : q # r => requests'[q] = requests[q]
      /\ requests' \in [Askers -> AskerRow]
  BY <1>1 DEF Moves, TokenTyped, AskerRow
<1>3. TokenTyped'
  BY <1>1, <1>2 DEF TokenTyped
<1>4. Timed'
  BY <1>1, <1>2 DEF Timed, AtMutex
<1>5. CellSound'
  BY <1>1, <1>2 DEF CellSound, CellServes
<1>6. PaidFor'
  BY <1>1, <1>2 DEF PaidFor, AtMutex, InCell
<1>7. ServedAlive'
  BY <1>1, <1>2 DEF ServedAlive
<1> QED BY <1>3, <1>4, <1>5, <1>6, <1>7

LEMMA LeaveKeeps ==
    ASSUME TokenInv, NEW r \in Askers, Leave(r)
    PROVE  TokenInv'
<1>1. TokenTyped /\ Queued
  BY DEF TokenInv
<1>2. /\ requests'[r].at = "without"
      /\ \A q \in Askers : q # r => requests'[q] = requests[q]
  BY <1>1 DEF Leave, Moves, TokenTyped
<1>3. PICK i \in DOMAIN queue : queue[i] = r /\ queue' = Without(i)
  BY DEF Leave
<1>4. \A q \in Askers : q # r /\ i = 1 => requests[q].at # "minting"
  BY <1>1, <1>3 DEF Queued
<1>5. Queued'
  BY <1>1, <1>2, <1>3, <1>4, QueueShrinks
<1> QED BY <1>5, WithoutKeeps DEF Leave, TokenInv

LEMMA DeniedKeeps ==
    ASSUME TokenInv, NEW r \in Askers, Denied(r)
    PROVE  TokenInv'
<1>1. TokenTyped /\ Queued
  BY DEF TokenInv
<1>2. /\ requests'[r].at = "without"
      /\ \A q \in Askers : q # r => requests'[q] = requests[q]
  BY <1>1 DEF Denied, Moves, TokenTyped
<1>3. queue # <<>> /\ queue[1] = r
  BY <1>1 DEF Denied, Queued, AtMutex
<1>4. queue' = Without(1) /\ 1 \in DOMAIN queue
  BY <1>1, <1>3, TailIsWithout DEF Denied
<1>5. \A q \in Askers : q # r => requests[q].at # "minting"
  BY <1>1, <1>3 DEF Queued
<1>6. Queued'
  BY <1>1, <1>2, <1>3, <1>4, <1>5, QueueShrinks
<1> QED BY <1>6, WithoutKeeps DEF Denied, TokenInv

LEMMA TickKeeps ==
    ASSUME TokenInv, TokenTick
    PROVE  TokenInv'
<1>1. TokenTyped /\ Queued /\ Timed /\ CellSound /\ PaidFor /\ ServedAlive
  BY DEF TokenInv
<1>2. /\ tokenNow' = tokenNow + 1 /\ tokenNow \in Int
      /\ cell' = cell /\ queue' = queue /\ requests' = requests
      /\ \A r \in Askers :
           /\ requests[r].at = "minting" => tokenNow < requests[r].since + Timeout
           /\ Holds(r) => requests[r].at = "minting"
  BY <1>1 DEF TokenTick, TokenTyped
<1>3. TokenTyped' /\ Queued' /\ ServedAlive'
  BY <1>1, <1>2 DEF TokenTyped, Queued, ServedAlive, AtMutex
<1>4. Timed'
  <2> SUFFICES ASSUME NEW r \in Askers
               PROVE  /\ AtMutex(r) => requests[r].clock <= tokenNow + 1
                      /\ requests[r].at = "minting" =>
                           /\ requests[r].clock <= requests[r].since
                           /\ requests[r].since <= tokenNow + 1
                           /\ tokenNow + 1 <= requests[r].since + Timeout
                      /\ requests[r].at = "served" => requests[r].when <= tokenNow + 1
    BY <1>2 DEF Timed, AtMutex
  <2> QED BY <1>1, <1>2, AskerTyped, TokenConstants DEF Timed
<1>5. ASSUME NEW r \in Askers, requests[r].at = "waiting" PROVE ~CellServes(r)
  <2>1. AtMutex(r)
    BY <1>5 DEF AtMutex
  <2>2. PICK i \in DOMAIN queue : queue[i] = r
    BY <1>1, <2>1 DEF Queued
  <2>3. queue # <<>>
    BY <1>1, <2>2 DEF Queued
  <2>4. 1 \in DOMAIN queue /\ Head(queue) = queue[1]
    BY <1>1, <2>3, TailIsWithout
  <2> DEFINE h == queue[1]
  <2>5. h \in Askers /\ AtMutex(h) /\ Holds(h)
    BY <1>1, <2>3, <2>4, QueueTyped DEF Holds
  <2>6. requests[h].at = "minting"
    BY <1>2, <2>5
  <2>7. ~CellServes(h)
    BY <1>1, <2>5, <2>6 DEF CellSound
  <2>8. requests[h].clock <= requests[r].clock
    <3> HIDE DEF h
    <3>1. queue[1] = h
      BY DEF h
    <3> QED BY <1>1, <2>1, <2>5, <3>1, HolderIsOldest
  <2> HIDE DEF h
  <2> QED BY <1>1, <2>1, <2>5, <2>7, <2>8, NotForLater
<1>6. CellSound'
  BY <1>1, <1>2, <1>5 DEF CellSound, CellServes
<1>7. PaidFor'
  BY <1>1, <1>2 DEF PaidFor, AtMutex, InCell
<1> QED BY <1>3, <1>4, <1>6, <1>7 DEF TokenInv

LEMMA ExchangeKeeps ==
    ASSUME TokenInv, NEW r \in Askers, ExchangeKey(r)
    PROVE  TokenInv'
<1>1. TokenTyped /\ Queued /\ Timed /\ CellSound /\ PaidFor /\ ServedAlive
  BY DEF TokenInv
<1>2. /\ requests[r].at = "waiting" /\ AtMutex(r) /\ ~CellServes(r)
      /\ requests[r].clock \in Int /\ tokenNow \in Int
      /\ tokenNow' = tokenNow /\ cell' = cell /\ queue' = queue
      /\ queue # <<>> /\ Head(queue) = r
  BY <1>1, AskerTyped DEF ExchangeKey, AtMutex, TokenTyped, Holds
<1>3. /\ requests' \in [Askers -> AskerRow]
      /\ requests'[r].at = "minting" /\ requests'[r].clock = requests[r].clock
      /\ requests'[r].since = tokenNow
      /\ \A q \in Askers : q # r => requests'[q] = requests[q]
  BY <1>1, <1>2 DEF ExchangeKey, Moves, TokenTyped, AskerRow
<1>4. queue[1] = r
  BY <1>1, <1>2, TailIsWithout
<1>5. \A q \in Askers : AtMutex(q)' <=> AtMutex(q)
  BY <1>2, <1>3 DEF AtMutex
<1>6. \A q \in Askers : requests'[q].at \in {"waiting", "minting"} => requests'[q].clock = requests[q].clock
  BY <1>3
<1>7. \A q \in Askers : requests'[q].at = "minting" => q = r
  BY <1>1, <1>3, <1>4, <1>2 DEF Queued
<1>8. TokenTyped'
  BY <1>1, <1>2, <1>3 DEF TokenTyped
<1>9. Queued'
  <2>1. \A i, j \in DOMAIN queue : i < j => requests'[queue[i]].clock <= requests'[queue[j]].clock
    <3> SUFFICES ASSUME NEW i \in DOMAIN queue, NEW j \in DOMAIN queue, i < j
                 PROVE  requests'[queue[i]].clock <= requests'[queue[j]].clock
      OBVIOUS
    <3>1. /\ queue[i] \in Askers /\ queue[j] \in Askers
          /\ AtMutex(queue[i]) /\ AtMutex(queue[j])
          /\ requests[queue[i]].clock <= requests[queue[j]].clock
      BY <1>1, QueueTyped DEF Queued
    <3> QED BY <1>3, <3>1
  <2> QED BY <1>1, <1>2, <1>4, <1>5, <1>7, <2>1 DEF Queued
<1>10. Timed'
  <2>1. requests[r].clock <= tokenNow
    BY <1>1, <1>2 DEF Timed
  <2> QED BY <1>1, <1>2, <1>3, <2>1, TokenConstants DEF Timed, AtMutex
<1>11. CellSound'
  BY <1>1, <1>2, <1>3 DEF CellSound, CellServes
<1>12. PaidFor'
  BY <1>1, <1>2, <1>3, <1>5, <1>6 DEF PaidFor, AtMutex, InCell
<1>13. ServedAlive'
  BY <1>1, <1>3 DEF ServedAlive
<1> QED BY <1>8, <1>9, <1>10, <1>11, <1>12, <1>13 DEF TokenInv

LEMMA AskKeeps ==
    ASSUME TokenInv, NEW r \in Askers, Ask(r)
    PROVE  TokenInv'
<1>1. TokenTyped /\ Queued /\ Timed /\ CellSound /\ PaidFor /\ ServedAlive
  BY DEF TokenInv
<1>2. /\ requests[r].at = "new" /\ ~AtMutex(r) /\ tokenNow \in Int
      /\ tokenNow' = tokenNow /\ cell' = cell /\ queue' = Append(queue, r)
  BY <1>1 DEF Ask, AtMutex, TokenTyped
<1>3. /\ requests' \in [Askers -> AskerRow]
      /\ requests'[r].at = "waiting" /\ requests'[r].clock = tokenNow
      /\ \A q \in Askers : q # r => requests'[q] = requests[q]
  BY <1>1, <1>2 DEF Ask, Moves, TokenTyped, AskerRow
<1>4. TokenTyped'
  BY <1>1, <1>2, <1>3 DEF TokenTyped
<1> DEFINE n == Len(queue)
<1>5. /\ queue \in Seq(Askers) /\ n \in Nat /\ DOMAIN queue = 1..n
      /\ queue' \in Seq(Askers) /\ DOMAIN queue' = 1..(n + 1)
      /\ \A i \in 1..n : queue'[i] = queue[i]
      /\ queue'[n + 1] = r
  BY <1>1, <1>2 DEF Queued
<1>6. \A i \in 1..n : /\ queue[i] \in Askers /\ AtMutex(queue[i]) /\ queue[i] # r
                      /\ requests'[queue[i]] = requests[queue[i]]
                      /\ requests[queue[i]].clock <= tokenNow
  BY <1>1, <1>2, <1>3, <1>5, QueueTyped DEF Timed
<1>7. Queued'
  <2>1. ASSUME NEW q \in Askers
        PROVE  AtMutex(q)' <=> \E i \in DOMAIN queue' : queue'[i] = q
    <3>1. CASE q = r
      BY <1>3, <1>5, <3>1 DEF AtMutex
    <3>2. CASE q # r
      <4>1. AtMutex(q)' <=> AtMutex(q)
        BY <1>3, <3>2 DEF AtMutex
      <4>2. AtMutex(q) <=> \E i \in 1..n : queue[i] = q
        BY <1>1, <1>5 DEF Queued
      <4>3. (\E i \in 1..n : queue[i] = q) => \E i \in 1..(n + 1) : queue'[i] = q
        BY <1>5
      <4>4. (\E i \in 1..(n + 1) : queue'[i] = q) => \E i \in 1..n : queue[i] = q
        BY <1>5, <3>2
      <4> QED BY <1>5, <4>1, <4>2, <4>3, <4>4
    <3> QED BY <3>1, <3>2
  <2>2. ASSUME NEW i \in DOMAIN queue', NEW j \in DOMAIN queue', i < j
        PROVE  /\ queue'[i] # queue'[j]
               /\ requests'[queue'[i]].clock <= requests'[queue'[j]].clock
    <3>1. i \in 1..n /\ queue'[i] = queue[i] /\ (j \in 1..n \/ j = n + 1)
      BY <1>5, <2>2
    <3>2. CASE j = n + 1
      BY <1>3, <1>5, <1>6, <3>1, <3>2
    <3>3. CASE j \in 1..n
      <4>1. queue[i] # queue[j] /\ requests[queue[i]].clock <= requests[queue[j]].clock
        BY <1>1, <1>5, <2>2, <3>1, <3>3 DEF Queued
      <4> QED BY <1>5, <1>6, <3>1, <3>3, <4>1
    <3> QED BY <3>1, <3>2, <3>3
  <2>3. ASSUME NEW q \in Askers, requests'[q].at = "minting" PROVE queue'[1] = q
    <3>1. q # r /\ requests[q].at = "minting" /\ AtMutex(q)
      BY <1>3, <2>3 DEF AtMutex
    <3>2. queue[1] = q /\ \E i \in DOMAIN queue : queue[i] = q
      BY <1>1, <3>1 DEF Queued
    <3> QED BY <1>5, <3>2
  <2> QED BY <1>5, <2>1, <2>2, <2>3 DEF Queued
<1>8. Timed'
  BY <1>1, <1>2, <1>3 DEF Timed, AtMutex
<1>9. CellSound'
  <2>1. ASSUME CellServes(r)' PROVE cell.dies - tokenNow > Skew - Timeout
    <3>1. cell # Empty /\ tokenNow < cell.until - Skew
      BY <1>2, <1>3, <2>1 DEF CellServes, Usable
    <3> QED BY <1>1, <1>2, <3>1, CellTyped, TokenConstants DEF CellSound
  <2>2. \A q \in Askers : q # r => (CellServes(q)' <=> CellServes(q))
    BY <1>2, <1>3 DEF CellServes
  <2> QED BY <1>1, <1>2, <1>3, <2>1, <2>2 DEF CellSound
<1>10. PaidFor'
  <2> SUFFICES ASSUME NEW s \in Askers, requests'[s].at = "served", ~requests'[s].cached
               PROVE  /\ requests'[s].token.until - Skew > requests'[s].when =>
                           /\ cell' # Empty
                           /\ requests'[s].token.until <= cell'.until
                      /\ \A q \in Askers :
                           /\ AtMutex(q)' /\ requests'[q].clock <= requests'[s].when
                           /\ requests'[s].token.until - Skew > requests'[q].clock
                           => /\ cell' # Empty
                              /\ requests'[s].token.until <= cell'.until
    BY DEF PaidFor, InCell
  <2>1. s # r /\ requests'[s] = requests[s] /\ requests[s].when <= tokenNow
    BY <1>1, <1>3 DEF Timed
  <2>2. requests[s].when \in Int
    BY <1>1, <1>3, <2>1, AskerTyped
  <2>3. ASSUME NEW q \in Askers, AtMutex(q)', requests'[q].clock <= requests[s].when,
               requests[s].token.until - Skew > requests'[q].clock
        PROVE  InCell(requests[s].token)
    <3>1. CASE q = r
      <4>1. requests[s].when = tokenNow
        BY <1>2, <1>3, <2>1, <2>2, <2>3, <3>1
      <4> QED BY <1>1, <1>3, <2>1, <2>3, <3>1, <4>1 DEF PaidFor
    <3>2. CASE q # r
      <4>1. AtMutex(q) /\ requests'[q] = requests[q]
        BY <1>3, <2>3, <3>2 DEF AtMutex
      <4> QED BY <1>1, <1>3, <2>1, <2>3, <4>1 DEF PaidFor
    <3> QED BY <3>1, <3>2
  <2>4. requests[s].token.until - Skew > requests[s].when => InCell(requests[s].token)
    BY <1>1, <1>3, <2>1 DEF PaidFor
  <2> QED BY <1>2, <2>1, <2>3, <2>4 DEF InCell
<1>11. ServedAlive'
  BY <1>1, <1>3 DEF ServedAlive
<1> QED BY <1>4, <1>7, <1>8, <1>9, <1>10, <1>11 DEF TokenInv

LEMMA ServeCachedKeeps ==
    ASSUME TokenInv, NEW r \in Askers, ServeCached(r)
    PROVE  TokenInv'
<1>1. TokenTyped /\ Queued /\ Timed /\ CellSound /\ PaidFor /\ ServedAlive
  BY DEF TokenInv
<1>2. /\ requests[r].at = "waiting" /\ AtMutex(r) /\ CellServes(r) /\ tokenNow \in Int
      /\ tokenNow' = tokenNow /\ cell' = cell /\ queue' = Tail(queue)
      /\ queue # <<>> /\ Head(queue) = r /\ cell \in TokenRow
  BY <1>1, CellTyped DEF ServeCached, AtMutex, TokenTyped, Holds, CellServes
<1>3. /\ requests' \in [Askers -> AskerRow]
      /\ requests'[r].at = "served" /\ requests'[r].token = cell
      /\ requests'[r].when = tokenNow /\ requests'[r].cached = TRUE
      /\ \A q \in Askers : q # r => requests'[q] = requests[q]
  BY <1>1, <1>2 DEF ServeCached, Moves, TokenTyped, AskerRow
<1>4. queue[1] = r /\ queue' = Without(1) /\ 1 \in DOMAIN queue
  BY <1>1, <1>2, TailIsWithout
<1>5. \A q \in Askers : q # r => requests[q].at # "minting"
  BY <1>1, <1>4 DEF Queued
<1>6. Queued'
  BY <1>1, <1>3, <1>4, <1>5, QueueShrinks
<1>7. TokenTyped'
  BY <1>1, <1>2, <1>3 DEF TokenTyped
<1>8. Timed'
  BY <1>1, <1>2, <1>3 DEF Timed, AtMutex
<1>9. CellSound'
  BY <1>1, <1>2, <1>3 DEF CellSound, CellServes
<1>10. PaidFor'
  BY <1>1, <1>2, <1>3 DEF PaidFor, AtMutex, InCell
<1>11. ServedAlive'
  BY <1>1, <1>2, <1>3 DEF ServedAlive, CellSound
<1> QED BY <1>6, <1>7, <1>8, <1>9, <1>10, <1>11 DEF TokenInv

LEMMA GrantedKeeps ==
    ASSUME TokenInv, NEW r \in Askers, Granted(r)
    PROVE  TokenInv'
<1>1. TokenTyped /\ Queued /\ Timed /\ CellSound /\ PaidFor /\ ServedAlive
  BY DEF TokenInv
<1>2. /\ requests[r].at = "minting" /\ AtMutex(r) /\ ~CellServes(r)
      /\ tokenNow \in Int /\ tokenNow' = tokenNow /\ queue' = Tail(queue)
      /\ requests[r].clock \in Int /\ requests[r].since \in Int
      /\ requests[r].clock <= requests[r].since
      /\ requests[r].since <= tokenNow /\ tokenNow <= requests[r].since + Timeout
  BY <1>1, AskerTyped DEF Granted, AtMutex, TokenTyped, CellSound, Timed
<1> DEFINE c == requests[r].clock
<1>3. PICK lifetime \in Lifetimes, issued \in requests[r].since..tokenNow :
        LET token == Token(c, issued, lifetime) IN
        /\ Moves(r, [at |-> "served", token |-> token, when |-> tokenNow, cached |-> FALSE])
        /\ cell' = IF KeptToken(token, c) THEN token ELSE cell
  BY DEF Granted
<1> DEFINE token == Token(c, issued, lifetime)
<1>4. /\ token \in TokenRow /\ token.until = c + lifetime /\ token.dies = issued + lifetime
      /\ lifetime \in Int /\ issued \in Int
      /\ requests[r].since <= issued /\ token # Empty
  BY <1>2, TokenConstants DEF Token, TokenRow
<1>5. /\ Moves(r, [at |-> "served", token |-> token, when |-> tokenNow, cached |-> FALSE])
      /\ cell' = IF Usable(token, c) THEN token ELSE cell
  BY <1>3 DEF KeptToken
<1> HIDE DEF token, c
<1>6. /\ requests' \in [Askers -> AskerRow]
      /\ requests'[r].at = "served" /\ requests'[r].token = token
      /\ requests'[r].when = tokenNow /\ requests'[r].cached = FALSE
      /\ \A q \in Askers : q # r => requests'[q] = requests[q]
  BY <1>1, <1>2, <1>4, <1>5 DEF Moves, TokenTyped, AskerRow
<1>7. queue[1] = r /\ queue # <<>>
  BY <1>1, <1>2 DEF Queued
<1>8. queue' = Without(1) /\ 1 \in DOMAIN queue
  BY <1>1, <1>2, <1>7, TailIsWithout
<1>9. \A q \in Askers : q # r => requests[q].at # "minting"
  BY <1>1, <1>7 DEF Queued
<1>10. Queued'
  BY <1>1, <1>6, <1>7, <1>8, <1>9, QueueShrinks
<1>11. TokenTyped'
  BY <1>1, <1>2, <1>4, <1>5, <1>6 DEF TokenTyped
<1>12. Timed'
  BY <1>1, <1>2, <1>6 DEF Timed, AtMutex
\* Nobody left at the mutex has an older clock, and what is kept outlives what was.
<1>13. \A q \in Askers : q # r /\ AtMutex(q) => c <= requests[q].clock /\ requests[q].clock \in Int
  BY <1>1, <1>2, <1>7, HolderIsOldest, AskerTyped DEF c
<1>14. Skew \in Int /\ Timeout \in Int /\ c \in Int /\ c <= requests[r].since
  BY <1>2, TokenConstants DEF c
<1>15. Usable(token, c) /\ cell # Empty => cell.until <= token.until
  BY <1>1, <1>2, <1>4, <1>14, CellTyped DEF CellServes, Usable, c
<1>16. CellSound'
  <2>1. cell' # Empty => cell'.until <= cell'.dies
    BY <1>1, <1>2, <1>4, <1>5, <1>14 DEF CellSound
  <2>2. \A q \in Askers : requests'[q].at # "minting"
    BY <1>6, <1>9
  <2>3. ASSUME NEW q \in Askers, requests'[q].at = "waiting", CellServes(q)'
        PROVE  cell'.dies - tokenNow > Skew - Timeout
    <3>1. q # r /\ requests'[q] = requests[q] /\ AtMutex(q) /\ requests[q].at = "waiting"
      BY <1>6, <2>3 DEF AtMutex
    <3>2. c <= requests[q].clock /\ requests[q].clock \in Int
      BY <1>13, <3>1
    <3>3. CASE Usable(token, c)
      <4>1. cell' = token /\ requests[q].clock < token.until - Skew
        BY <1>5, <2>3, <3>1, <3>3 DEF CellServes, Usable
      <4> QED BY <1>2, <1>4, <1>14, <3>2, <4>1
    <3>4. CASE ~Usable(token, c)
      <4>1. cell' = cell /\ CellServes(q)
        BY <1>5, <2>3, <3>1, <3>4 DEF CellServes
      <4> QED BY <1>1, <3>1, <4>1 DEF CellSound
    <3> QED BY <3>3, <3>4
  <2> QED BY <1>2, <2>1, <2>2, <2>3 DEF CellSound
<1>17. PaidFor'
  <2> SUFFICES ASSUME NEW s \in Askers, requests'[s].at = "served", ~requests'[s].cached
               PROVE  /\ requests'[s].token.until - Skew > requests'[s].when =>
                           /\ cell' # Empty
                           /\ requests'[s].token.until <= cell'.until
                      /\ \A q \in Askers :
                           /\ AtMutex(q)' /\ requests'[q].clock <= requests'[s].when
                           /\ requests'[s].token.until - Skew > requests'[q].clock
                           => /\ cell' # Empty
                              /\ requests'[s].token.until <= cell'.until
    BY DEF PaidFor, InCell
  <2>0. \A q \in Askers : AtMutex(q)' => q # r /\ AtMutex(q) /\ requests'[q] = requests[q]
    BY <1>6 DEF AtMutex
  <2>1. CASE s = r
    <3>1. Usable(token, c) => cell' = token
      BY <1>5
    <3>2. token.until \in Int
      BY <1>4, <1>14
    <3>3. token.until - Skew > tokenNow => Usable(token, c)
      BY <1>2, <1>14, <3>2 DEF Usable
    <3>4. \A q \in Askers : AtMutex(q)' /\ token.until - Skew > requests'[q].clock =>
            Usable(token, c)
      BY <1>13, <1>14, <2>0, <3>2 DEF Usable
    <3> QED BY <1>4, <1>6, <2>1, <3>1, <3>2, <3>3, <3>4
  <2>2. CASE s # r
    <3>1. requests'[s] = requests[s] /\ requests[s].at = "served" /\ ~requests[s].cached
      BY <1>6, <2>2
    <3>2. requests[s].token.until \in Int
      BY <1>1, <3>1, AskerTyped
    <3>3. InCell(requests[s].token) =>
            cell' # Empty /\ requests[s].token.until <= cell'.until
      <4>1. CASE Usable(token, c)
        <5>1. cell' = token
          BY <1>5, <4>1
        <5>2. cell # Empty => cell.until \in Int /\ cell.until <= token.until
          BY <1>1, <1>15, <4>1, CellTyped
        <5> QED BY <1>4, <1>14, <3>2, <5>1, <5>2 DEF InCell
      <4>2. CASE ~Usable(token, c)
        BY <1>5, <4>2 DEF InCell
      <4> QED BY <4>1, <4>2
    <3>4. requests[s].token.until - Skew > requests[s].when => InCell(requests[s].token)
      BY <1>1, <3>1 DEF PaidFor
    <3>5. \A q \in Askers :
            /\ AtMutex(q)' /\ requests'[q].clock <= requests[s].when
            /\ requests[s].token.until - Skew > requests'[q].clock
            => InCell(requests[s].token)
      BY <1>1, <2>0, <3>1 DEF PaidFor
    <3> QED BY <3>1, <3>3, <3>4, <3>5
  <2> QED BY <2>1, <2>2
<1>18. ServedAlive'
  BY <1>1, <1>6 DEF ServedAlive
<1> QED BY <1>10, <1>11, <1>12, <1>16, <1>17, <1>18 DEF TokenInv

LEMMA NextTokenInv == TokenInv /\ [TokenNext]_tokenVars => TokenInv'
<1> SUFFICES ASSUME TokenInv, [TokenNext]_tokenVars PROVE TokenInv'
  OBVIOUS
<1>1. CASE UNCHANGED tokenVars
  BY <1>1
     DEF tokenVars, TokenInv, TokenTyped, Queued, AtMutex, Timed, CellSound, CellServes,
         PaidFor, InCell, ServedAlive
<1>2. CASE TokenNext
  BY <1>2, TickKeeps, AskKeeps, ServeCachedKeeps, ExchangeKeeps, GrantedKeeps, DeniedKeeps,
     LeaveKeeps
     DEF TokenNext
<1> QED BY <1>1, <1>2

\* The lane's token, for any requests at the mutex and any lifetimes: the inductive
\* invariant (TokenCache::token).
THEOREM TokenInvariant == TokenSpec => []TokenInv
BY InitTokenInv, NextTokenInv, PTL DEF TokenSpec

\* Whoever is at the endpoint found in the cell nothing it could use, and what was
\* paid for since it took its clock is in the cell.
LEMMA NobodyHerds == TokenInv => NoHerd
<1> SUFFICES ASSUME TokenInv, NEW r \in Askers, NEW s \in Askers,
                    requests[r].at = "minting", requests[s].at = "served",
                    ~requests[s].cached, requests[s].when >= requests[r].clock,
                    requests[s].token.until - Skew > requests[r].clock
             PROVE  FALSE
  BY DEF NoHerd
<1>1. TokenTyped /\ CellSound /\ PaidFor /\ AtMutex(r)
  BY DEF TokenInv, AtMutex
<1>2. /\ requests[r].clock \in Int /\ requests[s].when \in Int
      /\ requests[s].token.until \in Int /\ Skew \in Int
  BY <1>1, AskerTyped, TokenConstants
<1>3. InCell(requests[s].token)
  BY <1>1, <1>2 DEF PaidFor
<1>4. cell # Empty /\ cell.until \in Int /\ requests[s].token.until <= cell.until
  BY <1>1, <1>3, CellTyped DEF InCell
<1>5. CellServes(r)
  BY <1>2, <1>4 DEF CellServes, Usable
<1> QED BY <1>1, <1>5 DEF CellSound

\* For any processes, keys, requests and lifetimes: a key its owner revoked or
\* shortened is served for less than one CACHE_TTL more however slow a lookup is
\* (authenticate), a token out of the cell has longer to live than the skew less one
\* exchange, and no request at the mutex repeats an exchange that gave those behind
\* it what they need (TokenCache::token).
THEOREM CredentialsFresh == CacheSpec /\ TokenSpec => []CachedIsFresh
<1>1. CacheInv /\ TokenInv => CachedIsFresh
  BY CacheIsFresh, NobodyHerds DEF CachedIsFresh, TokenInv
<1> QED BY <1>1, CacheInvariant, TokenInvariant, PTL
=============================================================================
