------------------------------ MODULE KeyCache ------------------------------
(***************************************************************************)
(* The authenticator's cache of API keys (router/src/auth.rs) beside the    *)
(* portal's edits of the rows it caches (router/src/portal.rs disable_key,  *)
(* update_key).  Each router process has a cache of its own; a lookup reads *)
(* the clock, then the row, then the clock again, and any of the portal's   *)
(* edits may land in between.                                               *)
(***************************************************************************)
EXTENDS Integers, FiniteSetsExt

CONSTANTS
    CachedKeys, \* the keys that are looked up
    Routers,    \* processes, each with a cache
    Lookups,    \* authentications that may be under way at once
    NoEntry,    \* no entry, no lookup
    CacheTtl,   \* CACHE_TTL, in ticks
    LastCacheTick   \* bound: the clock stops here

ASSUME KeyCacheAssumption ==
    CacheTtl \in Nat \ {0} /\ LastCacheTick \in Nat /\ NoEntry \notin Int

Never == LastCacheTick + CacheTtl + 1

VARIABLES
    cacheNow,   \* the clock, in ticks
    keyRows,    \* api_keys: disabled, expires_at, and when last edited
    cache,      \* cache[r][k]: until when r serves k without reading its row
    lookups     \* authentications the cache could not answer, not cached yet

cacheVars == <<cacheNow, keyRows, cache, lookups>>

CacheInit ==
    /\ cacheNow = 0
    /\ keyRows \in [CachedKeys -> [disabled : {FALSE}, expires : {1, Never},
                          edited : {0 - CacheTtl}]]
    /\ cache = [r \in Routers |-> [k \in CachedKeys |-> NoEntry]]
    /\ lookups = [l \in Lookups |-> NoEntry]

UsableRow(k) == ~keyRows[k].disabled /\ keyRows[k].expires > cacheNow

ServedFrom(r, k) == cache[r][k] # NoEntry /\ cache[r][k] > cacheNow

\* authenticate begins: the clock is read, then the cache, which an answer from
\* it leaves as it is.
Begin(l, r, k) ==
    /\ lookups[l] = NoEntry
    /\ ~ServedFrom(r, k)
    /\ lookups' = [lookups EXCEPT ![l] =
          [at |-> "missed", router |-> r, key |-> k, started |-> cacheNow,
           expires |-> Never]]
    /\ UNCHANGED <<cacheNow, keyRows, cache>>

\* The row: disabled or expired, it is refused as an unknown one is.
ReadRow(l) ==
    /\ lookups[l] # NoEntry /\ lookups[l].at = "missed"
    /\ LET k == lookups[l].key IN
       lookups' = [lookups EXCEPT ![l] =
          IF UsableRow(k) THEN [@ EXCEPT !.at = "read", !.expires = keyRows[k].expires]
          ELSE NoEntry]
    /\ UNCHANGED <<cacheNow, keyRows, cache>>

\* Mutant: the time to live counted from the insertion.
FromInsertion(started, expires) == cacheNow + Min({CacheTtl, expires - cacheNow})

\* The lesser of CACHE_TTL and what is left of the key, counted from the clock
\* reading the lookup began with.
EntryDeadline(started, expires) ==
    started + (IF expires <= cacheNow THEN 0 ELSE Min({CacheTtl, expires - cacheNow}))

\* The entries that were over when the lookup began are dropped, its own goes in.
Store(l) ==
    /\ lookups[l] # NoEntry /\ lookups[l].at = "read"
    /\ LET r == lookups[l].router
           k == lookups[l].key
           started == lookups[l].started
           kept == [j \in CachedKeys |->
                      IF cache[r][j] # NoEntry /\ cache[r][j] > started
                        THEN cache[r][j] ELSE NoEntry]
       IN cache' = [cache EXCEPT ![r] =
              [kept EXCEPT ![k] = EntryDeadline(started, lookups[l].expires)]]
    /\ lookups' = [lookups EXCEPT ![l] = NoEntry]
    /\ UNCHANGED <<cacheNow, keyRows>>

\* The caller hangs up, or the process restarts with an empty cache.
HangUp(l) ==
    /\ lookups[l] # NoEntry
    /\ lookups' = [lookups EXCEPT ![l] = NoEntry]
    /\ UNCHANGED <<cacheNow, keyRows, cache>>

Restart(r) ==
    /\ cache' = [cache EXCEPT ![r] = [k \in CachedKeys |-> NoEntry]]
    /\ lookups' = [l \in Lookups |->
          IF lookups[l] # NoEntry /\ lookups[l].router = r THEN NoEntry
          ELSE lookups[l]]
    /\ UNCHANGED <<cacheNow, keyRows>>

-----------------------------------------------------------------------------

\* disable_key: one way, and every cache is left as it is.
DisableRow(k) ==
    /\ ~keyRows[k].disabled
    /\ keyRows' = [keyRows EXCEPT ![k].disabled = TRUE, ![k].edited = cacheNow]
    /\ UNCHANGED <<cacheNow, cache, lookups>>

\* update_key: a new expiry, in the future, or none; a disabled key may be
\* edited too and stays disabled.
Reschedule(k, expires) ==
    /\ expires > cacheNow
    /\ expires # keyRows[k].expires
    /\ keyRows' = [keyRows EXCEPT ![k].expires = expires, ![k].edited = cacheNow]
    /\ UNCHANGED <<cacheNow, cache, lookups>>

CacheTick ==
    /\ cacheNow < LastCacheTick
    /\ cacheNow' = cacheNow + 1
    /\ UNCHANGED <<keyRows, cache, lookups>>

CacheNext ==
    \/ \E l \in Lookups :
         \/ \E r \in Routers, k \in CachedKeys : Begin(l, r, k)
         \/ ReadRow(l) \/ Store(l) \/ HangUp(l)
    \/ \E r \in Routers : Restart(r)
    \/ \E k \in CachedKeys : DisableRow(k) \/ Reschedule(k, cacheNow + 1)
                       \/ Reschedule(k, Never)
    \/ CacheTick

CacheSpec == CacheInit /\ [][CacheNext]_cacheVars

-----------------------------------------------------------------------------

\* A key no longer usable is served from a cache only because its owner revoked
\* it or brought its expiry forward, and for less than one CACHE_TTL after that
\* edit, however slow the lookup that cached it: an expiry the row already had
\* when it was read is never outlived (authenticate's clamp).
StalenessBounded ==
    \A r \in Routers, k \in CachedKeys :
        ServedFrom(r, k) /\ ~UsableRow(k) => cacheNow < keyRows[k].edited + CacheTtl
=============================================================================
