-------------------------------- MODULE Keys --------------------------------
(***************************************************************************)
(* API keys: the four ways one is minted (the portal's dialog, the portal's *)
(* playground, the RFC 8628 device grant and the operator) and how one is   *)
(* revoked (router/src/portal.rs, device.rs, db.rs admit_key_mint,          *)
(* admin.rs).                                                               *)
(*                                                                          *)
(* A mint is a transaction: its locks and what it has not committed are its *)
(* own until it commits, and a failure at any statement rolls it back.      *)
(***************************************************************************)
EXTENDS Integers, Sequences, FiniteSets, FiniteSetsExt

CONSTANTS
    Users, Grants,
    Minters,        \* the self-service mints that may run at once
    Nobody,         \* no holder of a lock, no user, no grant
    MaxActive,      \* MAX_ACTIVE_KEYS_PER_USER
    MaxCreated,     \* MAX_KEYS_CREATED_PER_WINDOW
    Window,         \* KEY_CREATION_WINDOW_HOURS, in ticks
    GrantTtl,       \* DEVICE_CODE_TTL_SECS, in ticks
    LastMintTick,   \* bound: the clock stops here
    MaxKeys         \* bound: keys minted in all

\* Keys of the portal and of the operator come by no grant.
ASSUME KeysAssumption ==
    /\ Nobody \notin Minters /\ Nobody \notin Grants
    /\ {"portal", "admin"} \cap Grants = {}
    /\ MaxActive \in Nat /\ MaxCreated \in Nat
    /\ Window \in Nat /\ GrantTtl \in Nat

VARIABLES
    mintNow,        \* the clock, in ticks
    frozenUsers,    \* users whose frozen_at is set
    apiKeys,        \* api_keys, in order of minting
    rowLock,        \* who holds a user's row FOR UPDATE
    mints,          \* the self-service mints under way
    grants          \* device_authorizations

keysVars == <<mintNow, frozenUsers, apiKeys, rowLock, mints, grants>>

Names == {"named", "playground"}

IdleMint == [at |-> "idle", user |-> Nobody, name |-> "named", grant |-> Nobody]

KeysInit ==
    /\ mintNow = 0
    /\ frozenUsers = {}
    /\ apiKeys = <<>>
    /\ rowLock = [u \in Users |-> Nobody]
    /\ mints = [m \in Minters |-> IdleMint]
    /\ grants = [g \in Grants |->
                    [status |-> "none", user |-> Nobody, expires |-> 0,
                     lock |-> Nobody]]

-----------------------------------------------------------------------------
(* A self-service mint.                                                    *)

Of(u) == {k \in DOMAIN apiKeys : apiKeys[k].user = u}
LiveOf(u) == {k \in Of(u) : ~apiKeys[k].disabled}
Recent(u) == {k \in Of(u) : apiKeys[k].created > mintNow - Window}
Playground(u) == {k \in LiveOf(u) : apiKeys[k].name = "playground"}

NewKey(u, name, via) ==
    [user |-> u, name |-> name, via |-> via, created |-> mintNow,
     disabled |-> FALSE]

\* create_key and ensure_playground_key: a portal request begins.
RequestKey(m, u, name) ==
    /\ mints[m].at = "idle" /\ Len(apiKeys) < MaxKeys
    /\ mints' = [mints EXCEPT ![m] =
                    [at |-> "locking", user |-> u, name |-> name, grant |-> Nobody]]
    /\ UNCHANGED <<mintNow, frozenUsers, apiKeys, rowLock, grants>>

\* Mutant: the count made without the row.
RowIgnored(u) == TRUE

\* SELECT ... FROM users ... FOR UPDATE is granted.
RowFree(u) == rowLock[u] = Nobody

LockUser(m) ==
    LET u == mints[m].user IN
    /\ mints[m].at = "locking"
    /\ RowFree(u)
    /\ rowLock' = [rowLock EXCEPT ![u] = m]
    /\ mints' = [mints EXCEPT ![m].at = "counting"]
    /\ UNCHANGED <<mintNow, frozenUsers, apiKeys, grants>>

\* What a playground mint has disabled before it counts.
Replaced(m) == IF mints[m].name = "playground"
                 THEN Playground(mints[m].user) ELSE {}

\* admit_key_mint: not frozen, below the cap on live keys and below the one on
\* keys created in the window, disabled ones included.
MintAdmitted(m) ==
    LET u == mints[m].user IN
    /\ u \notin frozenUsers
    /\ Cardinality(LiveOf(u) \ Replaced(m)) < MaxActive
    /\ Cardinality(Recent(u)) < MaxCreated

Count(m) ==
    /\ mints[m].at = "counting"
    /\ MintAdmitted(m)
    /\ mints' = [mints EXCEPT ![m].at = "inserting"]
    /\ UNCHANGED <<mintNow, frozenUsers, apiKeys, rowLock, grants>>

\* The transaction ends and lets go of every row it holds.
Released(m) ==
    /\ rowLock' = [u \in Users |-> IF rowLock[u] = m THEN Nobody ELSE rowLock[u]]
    /\ mints' = [mints EXCEPT ![m] = IdleMint]

\* Refused, failed or cut off: rolled back, a device grant still approved.
RollBack(m) ==
    /\ mints[m].at # "idle"
    /\ Released(m)
    /\ grants' = [g \in Grants |-> IF grants[g].lock = m
                    THEN [grants[g] EXCEPT !.lock = Nobody] ELSE grants[g]]
    /\ UNCHANGED <<mintNow, frozenUsers, apiKeys>>

\* The grant is claimed in the transaction that mints its key.
Claimed(g) == grants' = [grants EXCEPT ![g].lock = Nobody, ![g].status = "claimed"]

\* Mutant: the playground's earlier keys left alone.
Kept(m) == apiKeys

Disabled(m) == [k \in DOMAIN apiKeys |->
                   IF k \in Replaced(m) THEN [apiKeys[k] EXCEPT !.disabled = TRUE]
                   ELSE apiKeys[k]]

\* The key row, the disabled one it replaces and the claim commit together.
CommitMint(m) ==
    LET g == mints[m].grant IN
    /\ mints[m].at = "inserting" /\ Len(apiKeys) < MaxKeys
    /\ apiKeys' = Append(Disabled(m),
                      NewKey(mints[m].user, mints[m].name,
                             IF g = Nobody THEN "portal" ELSE g))
    /\ Released(m)
    /\ IF g = Nobody THEN UNCHANGED grants ELSE Claimed(g)
    /\ UNCHANGED <<mintNow, frozenUsers>>

-----------------------------------------------------------------------------
(* Device grants.                                                          *)

Expired(g) == grants[g].expires <= mintNow
Unlocked(g) == grants[g].lock = Nobody

\* start_device_authorization; what has gone stale is expired first.
StartGrant(g) ==
    /\ grants[g].status = "none"
    /\ \A h \in Grants : Unlocked(h)
    /\ grants' = [h \in Grants |->
          IF h = g THEN [grants[h] EXCEPT !.status = "pending",
                                          !.expires = mintNow + GrantTtl]
          ELSE IF grants[h].status \in {"pending", "approved"} /\ Expired(h)
            THEN [grants[h] EXCEPT !.status = "expired"]
          ELSE grants[h]]
    /\ UNCHANGED <<mintNow, frozenUsers, apiKeys, rowLock, mints>>

\* approve_user_code and deny_user_code: one conditional UPDATE.
Decide(g, u, verdict) ==
    /\ Unlocked(g)
    /\ grants[g].status = "pending" /\ ~Expired(g)
    /\ grants' = [grants EXCEPT ![g].status = verdict,
                     ![g].user = IF verdict = "approved" THEN u ELSE @]
    /\ UNCHANGED <<mintNow, frozenUsers, apiKeys, rowLock, mints>>

\* poll_device_token: the grant's row FOR UPDATE; stale, it expires.
PollExpired(g) ==
    /\ Unlocked(g)
    /\ grants[g].status \in {"pending", "approved"} /\ Expired(g)
    /\ grants' = [grants EXCEPT ![g].status = "expired"]
    /\ UNCHANGED <<mintNow, frozenUsers, apiKeys, rowLock, mints>>

\* Approved, it is held while the user's row is locked and counted.  A poll in
\* any other status changes nothing but when it was last polled.
PollApproved(m, g) ==
    /\ mints[m].at = "idle" /\ Len(apiKeys) < MaxKeys
    /\ Unlocked(g)
    /\ grants[g].status = "approved" /\ ~Expired(g)
    /\ grants' = [grants EXCEPT ![g].lock = m]
    /\ mints' = [mints EXCEPT ![m] = [at |-> "locking", user |-> grants[g].user,
                                      name |-> "named", grant |-> g]]
    /\ UNCHANGED <<mintNow, frozenUsers, apiKeys, rowLock>>

-----------------------------------------------------------------------------
(* The operator and the key's owner.                                       *)

\* freeze_account and unfreeze_account update the user's row.
SetFrozen(u) ==
    /\ rowLock[u] = Nobody
    /\ frozenUsers' \in {frozenUsers \cup {u}, frozenUsers \ {u}} \ {frozenUsers}
    /\ UNCHANGED <<mintNow, apiKeys, rowLock, mints, grants>>

\* admin mint_key: exempt from the limits; its foreign key needs the user's row.
AdminMint(u) ==
    /\ Len(apiKeys) < MaxKeys /\ rowLock[u] = Nobody
    /\ apiKeys' = Append(apiKeys, NewKey(u, "named", "admin"))
    /\ UNCHANGED <<mintNow, frozenUsers, rowLock, mints, grants>>

\* disable_key, and revoke_key of the operator: one way.
DisableKey(k) ==
    /\ ~apiKeys[k].disabled
    /\ apiKeys' = [apiKeys EXCEPT ![k].disabled = TRUE]
    /\ UNCHANGED <<mintNow, frozenUsers, rowLock, mints, grants>>

-----------------------------------------------------------------------------

KeysTick ==
    /\ mintNow < LastMintTick
    /\ mintNow' = mintNow + 1
    /\ UNCHANGED <<frozenUsers, apiKeys, rowLock, mints, grants>>

KeysNext ==
    \/ \E m \in Minters :
         \/ \E u \in Users, name \in Names : RequestKey(m, u, name)
         \/ \E g \in Grants : PollApproved(m, g)
         \/ LockUser(m) \/ Count(m) \/ CommitMint(m) \/ RollBack(m)
    \/ \E g \in Grants :
         \/ StartGrant(g) \/ PollExpired(g)
         \/ \E u \in Users : Decide(g, u, "approved") \/ Decide(g, u, "denied")
    \/ \E u \in Users : SetFrozen(u) \/ AdminMint(u)
    \/ \E k \in DOMAIN apiKeys : DisableKey(k)
    \/ KeysTick

KeysSpec == KeysInit /\ [][KeysNext]_keysVars

-----------------------------------------------------------------------------
(* Properties.                                                             *)

\* However portal requests and device claims of a user run together, no mint
\* leaves more live keys than the cap or more created in the window than the
\* throttle, and none is for a frozen account (admit_key_mint and the row lock
\* its callers hold); and one by a device grant is the grant's only one, for the
\* user who approved it (poll_device_token).
WithinLimits ==
    \A k \in DOMAIN apiKeys' \ DOMAIN apiKeys, u \in Users :
        apiKeys'[k].user = u =>
            /\ apiKeys'[k].via # "admin" =>
                 /\ Cardinality(LiveOf(u)') <= MaxActive
                 /\ Cardinality(Recent(u)') <= MaxCreated
                 /\ u \notin frozenUsers'
            /\ apiKeys'[k].via \in Grants =>
                 LET g == apiKeys'[k].via IN
                 /\ \A x \in DOMAIN apiKeys : apiKeys[x].via # g
                 /\ grants'[g].status = "claimed" /\ grants'[g].user = u

MintsWithinLimits == [][WithinLimits]_keysVars
=============================================================================
