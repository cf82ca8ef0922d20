----------------------------- MODULE Credentials -----------------------------
(***************************************************************************)
(* The two caches of credentials a request passes: the customer's key at   *)
(* the door (KeyCache) and the lane's access token on the way out (Tokens).*)
(***************************************************************************)
EXTENDS KeyCache, Tokens

\* Nothing cached is used past its time: a revoked key for no longer than an entry
\* of the cache lives (ApiKeyCache), a token only while it has a whole exchange to
\* live, and none is fetched twice by those who waited for it (TokenCache).
CachedIsFresh == StalenessBounded /\ ServedAlive /\ NoHerd
==============================================================================
