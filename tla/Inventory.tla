------------------------------- MODULE Inventory -------------------------------
(***************************************************************************)
(* The upstreams a deployment knows (router/src/providers.rs): the shipped *)
(* inventory with an operator's entries layered on it at start, what the   *)
(* environment makes of each of them, and the clients a route is put       *)
(* behind.  /v1/models and the request path ask the same question of the   *)
(* same entries, one of them for a customer who may have brought keys.     *)
(*                                                                         *)
(* A text is Absent, Blank or a name; an endpoint is the host it names and *)
(* the placeholders it writes.  The override of an endpoint that test      *)
(* harnesses use is left out.                                              *)
(***************************************************************************)
EXTENDS Integers, FiniteSets, Sequences, Functions

CONSTANTS
    Absent, Blank,
    Shipped,        \* the entries of config/providers.json
    Files,          \* what an operator may write: sequences of entries
    Environments,   \* what a deployment may set: [Variables -> value or Absent]
    TierTables,     \* candidate tables a catalog may hold: sequences of
                    \* [provider, surface]
    Wallets         \* what a customer may bring: [providers -> [key, falls]]

VARIABLES
    up,             \* is a process serving?
    extra,          \* OPERATOR_INVENTORY
    env,            \* the process environment
    given           \* what the last request was given

inventoryVars == <<up, extra, env, given>>

Entries == Shipped \cup Range(extra)

Named(key) == CHOOSE e \in Entries : e.key = key

-----------------------------------------------------------------------------
(* What refuses an inventory.                                              *)

Stated(text) == text \notin {Absent, Blank}

\* ProviderAdapter::dials_a_billed_endpoint
DialsABilledEndpoint(adapter) == adapter # "chat"

SurfaceUrls(e) == {e.surfaces[s].url : s \in DOMAIN e.surfaces}
Urls(e) == SurfaceUrls(e) \cup {e.url}

\* Does a plane of the entry write this placeholder?
Asks(e, placeholder) ==
    \E url \in Urls(e) \ {Absent, Blank} : placeholder \in url.asks

CredentialSound(e) ==
    IF e.keyless
      THEN ~DialsABilledEndpoint(e.adapter) /\ e.credential = Absent /\ e.secret = Absent
      ELSE Stated(e.credential) /\ Stated(e.secret)

SettlementSound(e) == e.free => ~DialsABilledEndpoint(e.adapter)

\* A variable is named if and only if some plane needs it.
PlacesSound(e) ==
    /\ Asks(e, "region") <=> Stated(e.region)
    /\ Asks(e, "project") <=> Stated(e.project)

\* Both halves, and every plane on the one adapter that checks it.
AttestationSound(e) ==
    e.header # Absent \/ e.expect # Absent =>
        /\ Stated(e.header) /\ Stated(e.expect) /\ e.header # "unusable"
        /\ e.adapter = "chat"
        /\ \A s \in DOMAIN e.surfaces : e.surfaces[s].adapter = "chat"

ReconciliationSound(e) ==
    /\ e.reason # Blank /\ e.source # Blank
    /\ e.reason = Absent \/ e.source = Absent

\* A runtime plane is a host and nothing else; a chat plane names its own.
PlanesSound(e) ==
    /\ Blank \notin Urls(e) /\ Blank \notin DOMAIN e.surfaces
    /\ e.adapter = "chat" => e.url # Absent
    /\ e.adapter = "runtime" => e.url # Absent /\ ~e.url.path
    /\ \A s \in DOMAIN e.surfaces : e.surfaces[s].adapter = "runtime" => ~e.surfaces[s].url.path

\* ProviderInventory::validate, of one entry.
Sound(e) ==
    /\ Stated(e.key) /\ e.name # Blank
    /\ CredentialSound(e) /\ SettlementSound(e) /\ PlacesSound(e)
    /\ ReconciliationSound(e) /\ AttestationSound(e) /\ PlanesSound(e)
    /\ e.mints => ~e.keyless

\* An operator's entry is neither a shipped provider nor the holder of its key.
Adds(file) ==
    \A i \in DOMAIN file :
        /\ file[i].key \notin {e.key : e \in Shipped}
        /\ file[i].credential = Absent \/ file[i].credential \notin {e.credential : e \in Shipped}

\* ProviderInventory::assembled
Assembles(file) ==
    /\ Adds(file)
    /\ \A i \in DOMAIN file : Sound(file[i])
    /\ \A i, j \in DOMAIN file : file[i].key = file[j].key => i = j

\* The shipped inventory is validated with whatever is layered on it, and none
\* of its entries holds the credential of another.
ASSUME ShippedAssumption ==
    \A e \in Shipped :
        /\ Sound(e)
        /\ \A f \in Shipped :
             f.key = e.key \/ (e.credential # Absent /\ f.credential = e.credential) => f = e

\* A surface's address is never left out, by its type; no host is called "implied".
Addressed(e) ==
    /\ \A s \in DOMAIN e.surfaces : e.surfaces[s].url # Absent
    /\ \A url \in Urls(e) \ {Absent, Blank} : url.host # "implied"

ASSUME AddressesAssumption ==
    \A e \in Shipped \cup UNION {Range(file) : file \in Files} : Addressed(e)

\* Nothing keeps two entries of an operator from naming one variable; one of which
\* mints from it while the other sends it as it stands is not considered.
ASSUME FilesAssumption ==
    \A file \in Files :
        \A i, j \in DOMAIN file :
            file[i].credential = file[j].credential =>
                file[i].credential = Absent \/ file[i].mints = file[j].mints

\* A customer's key is something, and a table is a list.
ASSUME RequestsAssumption ==
    /\ \A wallet \in Wallets : \A p \in DOMAIN wallet : wallet[p].key # Absent
    /\ \A table \in TierTables : table \in Seq(Range(table))

-----------------------------------------------------------------------------
(* What an environment makes of an entry.                                  *)

Read(variable) == IF variable = Absent THEN Absent ELSE env[variable]

\* resolve_region; an endpoint that is not stated is the adapter's own.
Resolved(e, url) ==
    IF url = Absent THEN [host |-> "implied", places |-> {}]
    ELSE IF \E a \in url.asks : Read(e[a]) = Absent THEN Absent
    ELSE [host |-> url.host, places |-> {Read(e[a]) : a \in url.asks}]

\* dispatchable: every plane's endpoint, then the credential, as `answer` gives
\* it for the entry's own variable.
Ready(e, answer) ==
    /\ \A url \in Urls(e) : Resolved(e, url) # Absent
    /\ e.keyless \/ answer # Absent

\* provider_is_dispatchable: /v1/models reads the variable itself.
Dispatchable(e) == Ready(e, Read(e.credential))

\* plane
Plane(e, surface) ==
    IF surface = Absent THEN [adapter |-> e.adapter, url |-> e.url] ELSE e.surfaces[surface]

-----------------------------------------------------------------------------
(* Building a route.                                                       *)

AcceptsByok(e) == ~e.keyless /\ ~e.mints

\* A candidate dials on the customer's key where there is one.
OnTheirKey(c, wallet) == AcceptsByok(Named(c.provider)) /\ c.provider \in DOMAIN wallet

\* mint_credentials: each minting provider of the table whose key is there; a
\* failure is remembered, so that nobody reads the key instead.
Minters(table) ==
    {e \in {Named(table[i].provider) : i \in DOMAIN table} :
        e.mints /\ Read(e.credential) # Absent}

\* resolve_credential
House(e, minted) ==
    IF e.credential \in DOMAIN minted THEN minted[e.credential] ELSE Read(e.credential)

\* What a candidate sends, as the customer or as the house.
Credential(c, theirs, wallet, minted) ==
    IF theirs THEN wallet[c.provider].key
    ELSE IF Named(c.provider).keyless THEN "nothing"
    ELSE House(Named(c.provider), minted)

\* create_provider: the house's attestation is asserted of the house's account.
Client(c, theirs, wallet, minted) ==
    LET e == Named(c.provider)
        plane == Plane(e, c.surface)
    IN  [adapter |-> plane.adapter, dials |-> Resolved(e, plane.url),
         sends |-> Credential(c, theirs, wallet, minted),
         attests |-> e.header # Absent /\ plane.adapter = "chat" /\ ~theirs]

\* Mutant: one client for each plane, whoever dials.
PlaneAlone(c, theirs) == <<c.provider, c.surface>>

\* A client is shared by the candidates of one plane that dial as the same party.
Shares(c, theirs) == <<c.provider, c.surface, theirs>>

\* The clients built so far, and one more unless its slot is taken.
With(clients, slot, client) ==
    [s \in DOMAIN clients \cup {slot} |-> IF s \in DOMAIN clients THEN clients[s] ELSE client]

Rung(c, client, byok, twin) ==
    [provider |-> c.provider, surface |-> c.surface, client |-> client,
     byok |-> byok, twin |-> twin]

\* Is the house's twin put behind a candidate on the customer's key?  They opted
\* in, and the house holds a key of its own.
Falls(clients, c, wallet, minted) ==
    /\ OnTheirKey(c, wallet) /\ wallet[c.provider].falls
    /\ \/ Shares(c, FALSE) \in DOMAIN clients
       \/ Ready(Named(c.provider), Credential(c, FALSE, wallet, minted))

SoFar(clients, unavailable, rungs) ==
    [clients |-> clients, unavailable |-> unavailable, rungs |-> rungs]

\* One candidate: on the customer's key where there is one, with the twin behind
\* it, or on the house's; a provider that cannot be reached is not asked again.
Placed(built, c, wallet, minted) ==
    LET theirs == OnTheirKey(c, wallet)
        slot == Shares(c, theirs)
        houseSlot == Shares(c, FALSE)
        clients == With(built.clients, slot, Client(c, theirs, wallet, minted))
        withTwin == With(clients, houseSlot, Client(c, FALSE, wallet, minted))
        first == Rung(c, clients[slot], theirs, FALSE)
        twin == Rung(c, withTwin[houseSlot], FALSE, TRUE)
    IN  IF c.provider \in built.unavailable THEN built
        ELSE IF ~Ready(Named(c.provider), Credential(c, theirs, wallet, minted))
          THEN SoFar(built.clients, built.unavailable \cup {c.provider}, built.rungs)
        ELSE IF Falls(clients, c, wallet, minted)
          THEN SoFar(withTwin, built.unavailable, Append(Append(built.rungs, first), twin))
        ELSE SoFar(clients, built.unavailable, Append(built.rungs, first))

\* build_with_byok
BuildWithByok(table, wallet, minted) ==
    LET built[i \in 0..Len(table)] ==
            IF i = 0 THEN SoFar(<<>>, {}, <<>>)
            ELSE Placed(built[i - 1], table[i], wallet, minted)
    IN  built[Len(table)].rungs

-----------------------------------------------------------------------------

InventoryInit == up = FALSE /\ extra = <<>> /\ env \in Environments /\ given = Absent

\* A process starts with the file it is pointed at, or does not come up.
Start ==
    /\ ~up
    /\ \E file \in Files :
         IF Assembles(file) THEN up' = TRUE /\ extra' = file ELSE UNCHANGED <<up, extra>>
    /\ UNCHANGED <<env, given>>

\* Only a catalog whose lanes name providers and surfaces it has is loaded.
Known(table) ==
    \A i \in DOMAIN table :
        /\ \E e \in Entries : e.key = table[i].provider
        /\ table[i].surface # Absent => table[i].surface \in DOMAIN Named(table[i].provider).surfaces

\* inference reaches new_with_byok; an empty route is refused.
Request ==
    /\ up
    /\ \E table \in TierTables, wallet \in Wallets :
         /\ Known(table)
         /\ \E minted \in [{e.credential : e \in Minters(table)} -> {"token", Absent}] :
              given' = [table |-> table, wallet |-> wallet, minted |-> minted,
                        rungs |-> BuildWithByok(table, wallet, minted)]
    /\ UNCHANGED <<up, extra, env>>

\* A secret or a setting changes by a new deployment.
Redeploy ==
    /\ up /\ up' = FALSE /\ extra' = <<>> /\ given' = Absent
    /\ env' \in Environments

InventoryNext == Start \/ Request \/ Redeploy

InventorySpec == InventoryInit /\ [][InventoryNext]_inventoryVars

-----------------------------------------------------------------------------
(* Properties.                                                             *)

\* A candidate is on a route exactly when its lane is listed, whatever stands
\* beside it: but for a token that could not be minted, which costs that lane and
\* no other, and for a customer's own key, which may bring a lane the house has no
\* key for (dispatchable, read by provider_is_dispatchable and build_with_byok).
RoutedAsListed ==
    up /\ given # Absent =>
        \A i \in DOMAIN given.table :
            LET c == given.table[i]
                e == Named(c.provider)
                theirs == AcceptsByok(e) /\ c.provider \in DOMAIN given.wallet
                failed == e.mints /\ e.credential \in DOMAIN given.minted
                          /\ given.minted[e.credential] = Absent
                routed == \E r \in DOMAIN given.rungs :
                            given.rungs[r].provider = c.provider
                            /\ given.rungs[r].surface = c.surface
            IN  IF theirs
                THEN routed <=> \A url \in Urls(e) : Resolved(e, url) # Absent
                ELSE routed <=> (Dispatchable(e) /\ ~failed)

\* Every rung dials the plane its candidate names, at an address with nothing left
\* to fill in, as the party it is billed to: the customer's key for that provider,
\* or a credential of the house that belongs to that entry and, where one must be
\* minted, never the key it is minted from (build_with_byok, create_provider).
DialsAsBilled ==
    up /\ given # Absent =>
        \A r \in DOMAIN given.rungs :
            LET rung == given.rungs[r]
                e == Named(rung.provider)
                plane == Plane(e, rung.surface)
            IN  /\ rung.client.adapter = plane.adapter
                /\ rung.client.dials = Resolved(e, plane.url) /\ rung.client.dials # Absent
                /\ plane.adapter \in {"chat", "runtime"} => rung.client.dials.host # "implied"
                /\ rung.byok => rung.client.sends = given.wallet[rung.provider].key
                /\ ~rung.byok /\ ~e.keyless =>
                     rung.client.sends = IF e.mints THEN "token" ELSE Read(e.credential)
                /\ rung.twin => r > 1 /\ given.rungs[r - 1].byok
                                /\ given.rungs[r - 1].provider = rung.provider
                                /\ given.rungs[r - 1].surface = rung.surface

\* A guarantee an entry declares is checked on every answer the house is served
\* with, on whichever plane, and never claimed of a customer's own account
\* (validate_attestation, create_provider).
GuaranteeAsserted ==
    up /\ given # Absent =>
        \A r \in DOMAIN given.rungs :
            LET rung == given.rungs[r] IN
            rung.client.attests <=> Named(rung.provider).header # Absent /\ ~rung.byok

\* The credentials of the shipped providers go where the shipped inventory sends
\* them (assembled).
ShippedKeysStayHome ==
    up /\ given # Absent =>
        \A r \in DOMAIN given.rungs :
            \A e \in Shipped :
                /\ ~given.rungs[r].byok /\ e.credential # Absent
                   /\ Named(given.rungs[r].provider).credential = e.credential =>
                     Named(given.rungs[r].provider) = e
                /\ given.rungs[r].provider = e.key => Named(e.key) = e
=============================================================================
