------------------------------- MODULE SignIn -------------------------------
(***************************************************************************)
(* Portal sign-in (router/src/oidc.rs, session.rs): the single-use login    *)
(* state, the browser's cookies, callbacks that overlap, the resolution of  *)
(* an identity to an account, the signup credit and the portal session.     *)
(*                                                                          *)
(* A browser may call back any answer it was ever given, as often as it     *)
(* likes and from several tabs; every statement outside a transaction       *)
(* commits by itself, and a process may stop between any two.               *)
(***************************************************************************)
EXTENDS Integers, Sequences, FiniteSets

CONSTANTS
    Browsers, Callbacks, Subjects, Emails, NoOne,
    StateTtl,       \* OIDC_STATE_TTL_SECS, in ticks
    RestartTtl,     \* OIDC_RESTART_TTL_SECS, in ticks
    SessionTtl,     \* config.session_ttl, in ticks
    LastTick,       \* bound: the clock stops here
    MaxLogins       \* bound: logins begun in all

ASSUME SignInAssumption ==
    /\ NoOne \notin Subjects
    /\ {StateTtl, RestartTtl, SessionTtl, LastTick, MaxLogins} \subseteq Nat

VARIABLES
    now,        \* the clock, in ticks
    states,     \* oidc_states: until when each login state may be consumed
    logins,     \* the browser that began each login
    jar,        \* a browser's cookies: login state, restart marker, session
    flows,      \* callbacks under way
    users,      \* the users rows: email, subject, how often granted the credit;
                \* and, of the model alone, whether the operator created it
    sessions    \* portal_sessions, with the login that earned each

signInVars == <<now, states, logins, jar, flows, users, sessions>>

NoState == 0
Idle == [at |-> "idle", login |-> NoState]

SignInInit ==
    /\ now = 0
    /\ states = [s \in {} |-> 0]
    /\ logins = <<>>
    /\ jar = [b \in Browsers |->
                 [login |-> NoState, loginUntil |-> 0, restartUntil |-> 0,
                  session |-> 0]]
    /\ flows = [f \in Callbacks |-> Idle]
    /\ users = <<>>
    /\ sessions = <<>>

-----------------------------------------------------------------------------
(* The login.                                                              *)

LiveState(s) == s \in DOMAIN states /\ states[s] > now

\* login: what has expired is deleted, a fresh state stored and the browser
\* bound to it.
Login(b) ==
    /\ Len(logins) < MaxLogins
    /\ LET s == Len(logins) + 1
           kept == {t \in DOMAIN states : LiveState(t)}
       IN /\ logins' = Append(logins, b)
          /\ states' = [t \in kept \cup {s} |->
                           IF t = s THEN now + StateTtl ELSE states[t]]
          /\ jar' = [jar EXCEPT ![b].login = s, ![b].loginUntil = now + StateTtl]
    /\ UNCHANGED <<now, flows, users, sessions>>

\* The insert fails after the delete, which stands.
LoginFails ==
    /\ \E s \in DOMAIN states : ~LiveState(s)
    /\ states' = [s \in {t \in DOMAIN states : LiveState(t)} |-> states[s]]
    /\ UNCHANGED <<now, logins, jar, flows, users, sessions>>

-----------------------------------------------------------------------------
(* The callback.                                                           *)

Presents(b, s) == jar[b].login = s /\ jar[b].loginUntil > now

\* restart_sign_in: a first failure leaves its marker and sends the browser to
\* log in again; one that finds the marker answers the error and clears both.
RestartSignIn(b) ==
    jar' = [jar EXCEPT ![b] =
        IF @.restartUntil > now
          THEN [@ EXCEPT !.restartUntil = 0, !.login = NoState]
        ELSE [@ EXCEPT !.restartUntil = now + RestartTtl]]

\* No cookie or another login's, or a state expired or spent.
Refused(b, s) ==
    /\ logins[s] = b
    /\ ~(Presents(b, s) /\ LiveState(s))
    /\ RestartSignIn(b)
    /\ UNCHANGED <<now, states, logins, flows, users, sessions>>

\* Mutant: the state is looked up and left there.
LookedUp(s) == UNCHANGED states

\* DELETE FROM oidc_states ... RETURNING.
StateUsed(s) == states' = [t \in DOMAIN states \ {s} |-> states[t]]

Consume(f, b, s) ==
    /\ flows[f].at = "idle"
    /\ logins[s] = b /\ Presents(b, s) /\ LiveState(s)
    /\ StateUsed(s)
    /\ flows' = [flows EXCEPT ![f] = [at |-> "exchanging", login |-> s]]
    /\ UNCHANGED <<now, logins, jar, users, sessions>>

\* The provider's error, a failed exchange or token, an unverified email, a
\* database that fails, or the process stopping: the state stays spent and
\* whatever was committed stays.
Abandon(f) ==
    /\ flows[f].at # "idle"
    /\ flows' = [flows EXCEPT ![f] = Idle]
    /\ UNCHANGED <<now, states, logins, jar, users, sessions>>

\* The exchange yields a verified token: who signed in, under what email.
Exchange(f, subject, email) ==
    /\ flows[f].at = "exchanging"
    /\ flows' = [flows EXCEPT ![f] =
          [at |-> "looking", login |-> @.login, subject |-> subject,
           email |-> email, user |-> 0]]
    /\ UNCHANGED <<now, states, logins, jar, users, sessions>>

-----------------------------------------------------------------------------
(* upsert_user: three statements of one transaction, each of which sees what *)
(* other transactions have committed before it.                            *)

Resolved(f, u, next) ==
    flows' = [flows EXCEPT ![f] = [@ EXCEPT !.at = next, !.user = u]]

IsSubject(u, subject) == users[u].subject = subject

\* An account that is not new goes without the credit.
AfterLookUp(f) == "opening"

LookUp(f) ==
    /\ flows[f].at = "looking"
    /\ LET mine == {u \in DOMAIN users : IsSubject(u, flows[f].subject)} IN
       IF mine = {} THEN Resolved(f, 0, "claiming")
       ELSE \E u \in mine : Resolved(f, u, AfterLookUp(f))
    /\ UNCHANGED <<now, states, logins, jar, users, sessions>>

\* WHERE email = $3 AND oidc_issuer IS NULL, evaluated again on a row another
\* transaction changed first.
Claimable(u, f) == users[u].email = flows[f].email /\ users[u].subject = NoOne

Claim(f) ==
    /\ flows[f].at = "claiming"
    /\ IF \E u \in DOMAIN users : Claimable(u, f)
         THEN \E u \in DOMAIN users :
                /\ Claimable(u, f)
                /\ \A v \in DOMAIN users : ~IsSubject(v, flows[f].subject)
                /\ users' = [users EXCEPT ![u].subject = flows[f].subject]
                /\ Resolved(f, u, "opening")
       ELSE /\ Resolved(f, 0, "inserting")
            /\ UNCHANGED users
    /\ UNCHANGED <<now, states, logins, jar, sessions>>

EmailTaken(f) == \E u \in DOMAIN users : users[u].email = flows[f].email

\* A subject inserted meanwhile under another email breaks the unique index and
\* fails the callback instead, see Abandon.
Insert(f) ==
    /\ flows[f].at = "inserting"
    /\ ~EmailTaken(f)
    /\ \A u \in DOMAIN users : ~IsSubject(u, flows[f].subject)
    /\ users' = Append(users, [email |-> flows[f].email,
                               subject |-> flows[f].subject, granted |-> 0,
                               provisioned |-> FALSE])
    /\ Resolved(f, Len(users) + 1, "granting")
    /\ UNCHANGED <<now, states, logins, jar, sessions>>

-----------------------------------------------------------------------------
(* After the account.                                                      *)

\* grant_promo, for an account this callback inserted: a grant that fails is
\* logged and does not fail the login.
Grant(f) ==
    /\ flows[f].at = "granting"
    /\ Resolved(f, flows[f].user, "opening")
    /\ \/ users' = [users EXCEPT ![flows[f].user].granted = @ + 1]
       \/ UNCHANGED users
    /\ UNCHANGED <<now, states, logins, jar, sessions>>

Closed(x) == x.revoked \/ x.expires <= now

\* create_session and the cookies of the answer, which a browser gone by then
\* never stores; prune_sessions deletes only what can no longer be resolved.
Open(f) ==
    LET s == flows[f].login
        b == logins[s]
        x == [user |-> flows[f].user, login |-> s, subject |-> flows[f].subject,
              expires |-> now + SessionTtl, revoked |-> FALSE]
    IN /\ flows[f].at = "opening"
       /\ sessions' = Append(sessions, x)
       /\ flows' = [flows EXCEPT ![f] = Idle]
       /\ \/ jar' = [jar EXCEPT ![b] =
                [@ EXCEPT !.session = Len(sessions) + 1, !.login = NoState,
                          !.restartUntil = 0]]
          \/ UNCHANGED jar
       /\ UNCHANGED <<now, states, logins, users>>

\* Logout, resolved by the session cookie.
Logout(b) ==
    /\ jar[b].session # 0 /\ ~Closed(sessions[jar[b].session])
    /\ sessions' = [sessions EXCEPT ![jar[b].session].revoked = TRUE]
    /\ jar' = [jar EXCEPT ![b].session = 0]
    /\ UNCHANGED <<now, states, logins, flows, users>>

\* The operator's mint_key creates the account an email does not have yet.
Provision(email) ==
    /\ \A u \in DOMAIN users : users[u].email # email
    /\ users' = Append(users, [email |-> email, subject |-> NoOne, granted |-> 0,
                               provisioned |-> TRUE])
    /\ UNCHANGED <<now, states, logins, jar, flows, sessions>>

SignInTick ==
    /\ now < LastTick
    /\ now' = now + 1
    /\ UNCHANGED <<states, logins, jar, flows, users, sessions>>

SignInNext ==
    \/ \E b \in Browsers : Login(b) \/ Logout(b)
    \/ LoginFails
    \/ \E b \in Browsers, s \in DOMAIN logins :
         \/ Refused(b, s)
         \/ \E f \in Callbacks : Consume(f, b, s)
    \/ \E f \in Callbacks :
         \/ \E subject \in Subjects, email \in Emails : Exchange(f, subject, email)
         \/ LookUp(f) \/ Claim(f) \/ Insert(f) \/ Grant(f) \/ Open(f)
         \/ Abandon(f)
    \/ \E email \in Emails : Provision(email)
    \/ SignInTick

SignInSpec == SignInInit /\ [][SignInNext]_signInVars

-----------------------------------------------------------------------------

\* A session was earned by a login no other session was earned by, however
\* often the answer was called back, and belongs to the account of the subject
\* whose token that login verified, whoever signed in meanwhile (callback's
\* DELETE ... RETURNING; upsert_user's claim of an account nobody has).
SessionsEarned ==
    \A i \in DOMAIN sessions :
        /\ users[sessions[i].user].subject = sessions[i].subject
        /\ \A j \in DOMAIN sessions :
             sessions[j].login = sessions[i].login => i = j

\* A subject has one account and is granted the signup credit once, and an
\* account the operator created never is, whoever claims it (upsert_user, is_new).
OneAccount ==
    \A u, v \in DOMAIN users :
        /\ users[u].granted <= 1
        /\ users[u].provisioned => users[u].granted = 0
        /\ users[u].email = users[v].email => u = v
        /\ users[u].subject = users[v].subject /\ users[u].subject # NoOne => u = v

\* A session is of whoever its browser signed in as, and one address is one
\* account (callback, upsert_user).
SignedInAsThemselves == SessionsEarned /\ OneAccount
=============================================================================
