-------------------------------- MODULE Tokens --------------------------------
(***************************************************************************)
(* The access tokens of the one lane whose credential must be exchanged    *)
(* first (TokenCache in router/src/gcp_auth.rs, its use when a route is    *)
(* built in router/src/providers.rs).  One cell per process; the mutex     *)
(* around it is held across the exchange, and a request reads the clock    *)
(* before it waits for the mutex, so every decision it takes inside is     *)
(* taken at a time that has passed.                                        *)
(***************************************************************************)
EXTENDS Integers, Sequences

CONSTANTS
    Askers,         \* requests routed to the lane
    Empty,          \* no token, no time
    Skew,           \* REFRESH_SKEW
    Timeout,        \* TOKEN_TIMEOUT
    Lifetimes,      \* what the endpoint may grant; 0 when it does not say
    LastTokenTick   \* bound: the clock stops here

ASSUME TokensAssumption ==
    /\ Skew \in Nat /\ Timeout \in Nat /\ Lifetimes \subseteq Nat
    /\ LastTokenTick \in Nat /\ Empty \notin [until : Int, dies : Int]

VARIABLES
    tokenNow,       \* the clock, here and at the endpoint
    cell,           \* TokenCache.cached
    queue,          \* requests at the mutex; the first one holds it
    requests        \* where each one is

tokenVars == <<tokenNow, cell, queue, requests>>

TokenInit ==
    /\ tokenNow = 0 /\ cell = Empty /\ queue = <<>>
    /\ requests = [r \in Askers |-> [at |-> "new"]]

Holds(r) == queue # <<>> /\ Head(queue) = r

Moves(r, to) == requests' = [requests EXCEPT ![r] = to]

\* A token as the router knows it, and when it really stops working: the
\* lifetime runs from the answer, the router counts it from the clock it read.
Token(clock, issued, lifetime) ==
    [until |-> clock + lifetime, dies |-> issued + lifetime]

\* AccessToken::usable_at
Usable(token, clock) == clock < token.until - Skew

\* An exchange is over in its timeout; between its steps a request does not wait.
TokenTick ==
    /\ tokenNow < LastTokenTick /\ tokenNow' = tokenNow + 1
    /\ \A r \in Askers :
         /\ requests[r].at = "minting" => tokenNow < requests[r].since + Timeout
         /\ Holds(r) => requests[r].at = "minting"
    /\ UNCHANGED <<cell, queue, requests>>

\* minted_credential: the clock is read, then the mutex is waited for.
Ask(r) ==
    /\ requests[r].at = "new"
    /\ Moves(r, [at |-> "waiting", clock |-> tokenNow])
    /\ queue' = Append(queue, r)
    /\ UNCHANGED <<tokenNow, cell>>

\* The cell may have been filled while this request waited.
CellServes(r) == cell # Empty /\ Usable(cell, requests[r].clock)

\* TokenCache::token, from the cell.
ServeCached(r) ==
    /\ Holds(r) /\ requests[r].at = "waiting" /\ CellServes(r)
    /\ Moves(r, [at |-> "served", token |-> cell, when |-> tokenNow, cached |-> TRUE])
    /\ queue' = Tail(queue)
    /\ UNCHANGED <<tokenNow, cell>>

ExchangeKey(r) ==
    /\ Holds(r) /\ requests[r].at = "waiting" /\ ~CellServes(r)
    /\ Moves(r, [at |-> "minting", clock |-> requests[r].clock, since |-> tokenNow])
    /\ UNCHANGED <<tokenNow, cell, queue>>

\* A token already inside the skew is not kept.
KeptToken(token, clock) == Usable(token, clock)

\* The answer: the request that paid for it is served with it, kept or not.
Granted(r) ==
    /\ requests[r].at = "minting"
    /\ \E lifetime \in Lifetimes, issued \in requests[r].since..tokenNow :
         LET token == Token(requests[r].clock, issued, lifetime) IN
         /\ Moves(r, [at |-> "served", token |-> token, when |-> tokenNow, cached |-> FALSE])
         /\ cell' = IF KeptToken(token, requests[r].clock) THEN token ELSE cell
    /\ queue' = Tail(queue)
    /\ UNCHANGED tokenNow

\* Unreachable, refused, late or unreadable: this request goes without the lane,
\* never with the key itself (mint_credentials, resolve_credential).
Denied(r) ==
    /\ requests[r].at = "minting"
    /\ Moves(r, [at |-> "without"])
    /\ queue' = Tail(queue)
    /\ UNCHANGED <<tokenNow, cell>>

Without(i) ==
    [j \in 1..(Len(queue) - 1) |-> IF j < i THEN queue[j] ELSE queue[j + 1]]

\* A request dropped at the mutex or in the exchange lets go of it.
Leave(r) ==
    /\ requests[r].at \in {"waiting", "minting"}
    /\ Moves(r, [at |-> "without"])
    /\ \E i \in DOMAIN queue : queue[i] = r /\ queue' = Without(i)
    /\ UNCHANGED <<tokenNow, cell>>

TokenNext ==
    \/ TokenTick
    \/ \E r \in Askers :
         \/ Ask(r) \/ ServeCached(r) \/ ExchangeKey(r)
         \/ Granted(r) \/ Denied(r) \/ Leave(r)

TokenSpec == TokenInit /\ [][TokenNext]_tokenVars

-----------------------------------------------------------------------------
(* Properties.                                                             *)

\* A token out of the cell is good for longer than the skew less one exchange,
\* however long its request waited and whatever clock it judged it by
\* (TokenCache::token).
ServedAlive ==
    \A r \in Askers :
        requests[r].at = "served" /\ requests[r].cached =>
            requests[r].token.dies - requests[r].when > Skew - Timeout

\* A request goes to the endpoint only if nobody it waited for left it a token it
\* could use: those at the mutex behind an exchange that worked never repeat it
\* (the mutex held across the mint).
NoHerd ==
    \A r, s \in Askers :
        requests[r].at = "minting" /\ requests[s].at = "served" =>
            ~(/\ ~requests[s].cached
              /\ requests[s].when >= requests[r].clock
              /\ requests[s].when <= requests[r].since
              /\ requests[s].token.until - Skew > requests[r].clock)
=============================================================================
