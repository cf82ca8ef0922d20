------------------------------ MODULE MCWires ------------------------------
(* A streamed request from end to end: the clients a route is put behind    *)
(* and the order of its rungs, the walk over them, the stream of one        *)
(* upstream in each dialect, what the conversation is turned into on its    *)
(* way, and the debt it leaves in the outbox.  One of them runs per         *)
(* behaviour.  Streams is extended, the others are instances over the slots *)
(* they need.                                                               *)
EXTENDS Streams, TLC

CONSTANT Components        \* the components a run is about

VARIABLES component, v1, v2, v3, v4, v5, v6, v7, v8, v9, v10, v11, v12, v13

far == <<v10, v11, v12, v13>>
slots == <<v1, v2, v3, v4, v5, v6, v7, v8, v9, far>>

Unused9 == v10 = 0 /\ v11 = 0 /\ v12 = 0 /\ v13 = 0
Unused4 == v5 = 0 /\ v6 = 0 /\ v7 = 0 /\ v8 = 0 /\ v9 = 0 /\ Unused9
Unused == v1 = 0 /\ v2 = 0 /\ v3 = 0 /\ v4 = 0 /\ Unused4

-----------------------------------------------------------------------------

Candidate(k, p) == [key |-> k, provider |-> p, zero |-> TRUE]

OneProvider == << Candidate("a", "A") >>

\* Two models of one provider.
TwoModels == << Candidate("a", "A"), Candidate("b", "A") >>

\* Growing snapshots, a correction downwards of one figure, an absurd one, cached
\* tokens of a prompt that is not counted.
ChatReports ==
    {[prompt |-> 3, completion |-> 1, cached |-> 1],
     [prompt |-> 3, completion |-> 4, cached |-> Unstated],
     [prompt |-> Unstated, completion |-> 2, cached |-> Unstated],
     [prompt |-> 2, completion |-> 5, cached |-> 1],
     [prompt |-> 11, completion |-> 5, cached |-> 0],
     [prompt |-> Unstated, completion |-> Unstated, cached |-> 2]}

Counter(input, output, read, creation) ==
    [input |-> input, output |-> output, read |-> read, creation |-> creation]

\* message_start, then two message_deltas of which the last restates the input.
Snapshots ==
    << Counter(5, 1, 2, 1), Counter(Unstated, 3, Unstated, Unstated),
       Counter(5, 6, Unstated, Unstated) >>

R == INSTANCE ResponsesStream WITH
    MaxPieces <- 4,
    produced <- v1, items <- v2, frames <- v3, clipped <- v4, writing <- v5,
    taken <- v6, read <- v7, metered <- v8, verdict <- v9

-----------------------------------------------------------------------------
(* What a client of either surface may say.                                *)

Part(type, mark) == [type |-> type, mark |-> mark]
Says(role, parts, mark) ==
    [role |-> role, parts |-> parts, calls |-> 0, reasoning |-> FALSE, mark |-> mark]

TextOnly == <<Part("text", FALSE)>>

ResponsesShapes ==
    {Says("system", TextOnly, FALSE), Says("user", TextOnly, FALSE),
     Says("user", <<Part("text", FALSE), Part("image", FALSE)>>, FALSE),
     Says("assistant", TextOnly, FALSE), Says("assistant", <<Part("blank", FALSE)>>, FALSE),
     [Says("assistant", <<>>, FALSE) EXCEPT !.calls = 1],
     Says("tool", TextOnly, FALSE)}

ChatShapes ==
    {Says("system", TextOnly, TRUE),
     Says("system", <<Part("text", TRUE)>>, FALSE),
     Says("user", TextOnly, FALSE),
     Says("user", <<Part("text", TRUE), Part("blank", FALSE), Part("image", FALSE)>>, FALSE),
     Says("user", <<Part("blank", TRUE)>>, TRUE),
     Says("assistant", TextOnly, FALSE),
     [Says("assistant", <<>>, FALSE) EXCEPT !.reasoning = TRUE],
     [Says("assistant", TextOnly, TRUE) EXCEPT !.calls = 2],
     Says("tool", TextOnly, FALSE)}

C == INSTANCE Conversation WITH
    Shapes <- [chat |-> ChatShapes, responses |-> ResponsesShapes],
    ToolLists <- {<<>>, <<FALSE, FALSE>>, <<TRUE, FALSE>>},
    MaxItems <- 4, MaxBreakpoints <- 4,
    surface <- v1, tools <- v2, history <- v3, messages <- v4

-----------------------------------------------------------------------------
(* A metered vendor, one with a second plane in a region, one that attests   *)
(* its answers, one whose key is exchanged for tokens; and an operator's     *)
(* local and hosted entries, each with up to two things written otherwise.   *)

Url(host, asks) == [host |-> host, asks |-> asks, path |-> FALSE]

Vendor(key, adapter, credential, url) ==
    [key |-> key, name |-> Absent, adapter |-> adapter, free |-> FALSE,
     keyless |-> FALSE, credential |-> credential, secret |-> "stored", url |-> url,
     region |-> Absent, project |-> Absent, mints |-> FALSE,
     reason |-> Absent, source |-> Absent, header |-> Absent, expect |-> Absent,
     surfaces |-> <<>>]

ShippedEntries ==
    {Vendor("openai", "responses", "KO", Absent),
     [Vendor("bedrock", "messages", "KB", Url("mantle", {"region"})) EXCEPT
         !.region = "R", !.surfaces = [classic |->
             [adapter |-> "runtime", url |-> Url("runtime", {"region"})]]],
     [Vendor("xai", "chat", "KX", Url("xai", {})) EXCEPT !.header = "zdr", !.expect = "true"],
     [Vendor("vertex", "chat", "KV", Url("google", {"project"})) EXCEPT
         !.mints = TRUE, !.project = "P"]}

Local ==
    [Vendor("home", "chat", Absent, Url("lan", {})) EXCEPT
        !.keyless = TRUE, !.secret = Absent, !.free = TRUE]
Burst ==
    [Vendor("home", "chat", "KH", Url("burst", {})) EXCEPT
        !.header = "zdr", !.expect = "true", !.source = "elsewhere"]
Twofold ==
    [Vendor("home", "messages", "KH", Url("east", {"region"})) EXCEPT
        !.region = "R", !.surfaces = [classic |->
            [adapter |-> "chat", url |-> Url("west", {"region"})]]]

Surfaces(adapter, url) == [classic |-> [adapter |-> adapter, url |-> url]]

Edits ==
    {<<"key", "xai">>, <<"key", Blank>>, <<"name", Blank>>,
     <<"adapter", "chat">>, <<"adapter", "messages">>, <<"adapter", "runtime">>,
     <<"free", TRUE>>, <<"keyless", TRUE>>, <<"keyless", FALSE>>,
     <<"credential", "KX">>, <<"credential", "KH">>, <<"credential", Absent>>,
     <<"secret", "stored">>, <<"secret", Absent>>,
     <<"url", Absent>>, <<"url", Blank>>, <<"url", Url("lan", {"region", "project"})>>,
     <<"url", [Url("lan", {}) EXCEPT !.path = TRUE]>>,
     <<"region", "R">>, <<"region", Blank>>, <<"project", "P">>, <<"mints", TRUE>>,
     <<"reason", "argued">>, <<"reason", Blank>>, <<"source", Blank>>,
     <<"header", "zdr">>, <<"header", "unusable">>, <<"header", Absent>>, <<"expect", Blank>>,
     <<"surfaces", Surfaces("messages", Url("lan", {}))>>,
     <<"surfaces", Surfaces("chat", Url("lan", {"project"}))>>,
     <<"surfaces", Surfaces("runtime", [Url("lan", {}) EXCEPT !.path = TRUE])>>}

Edited(e, edit) == [e EXCEPT ![edit[1]] = edit[2]]

OperatorFiles ==
    {<<>>, <<Local, [Burst EXCEPT !.key = "burst"]>>, <<Local, Burst>>} \cup
    {<<Edited(Edited(e, a), b)>> : e \in {Local, Burst, Twofold}, a \in Edits, b \in Edits}

Variables == {"KO", "KB", "KX", "KV", "KH", "R", "P"}

Deployments ==
    {[v \in Variables |-> IF v \in unset THEN Absent ELSE v] :
        unset \in {{}, {"KB"}, {"R"}, {"KV"}, {"P"}, {"KX", "KH"}, {"KO", "KX"}}}

Lane(provider, surface) == [provider |-> provider, surface |-> surface]

CandidateTables ==
    {<<Lane("bedrock", Absent), Lane("xai", Absent), Lane("bedrock", "classic"),
       Lane("xai", Absent)>>,
     <<Lane("home", "classic"), Lane("vertex", Absent), Lane("home", Absent)>>,
     <<Lane("openai", Absent), Lane("home", Absent), Lane("vertex", Absent)>>}

Brings(falls) == [key |-> "theirs", falls |-> falls]

CustomerWallets ==
    {<<>>, [xai |-> Brings(TRUE), vertex |-> Brings(FALSE)],
     [bedrock |-> Brings(TRUE), openai |-> Brings(FALSE)],
     [home |-> Brings(TRUE), bedrock |-> Brings(FALSE)]}

-----------------------------------------------------------------------------
(* Lanes of four kinds: a local one that costs nothing, two metered ones of  *)
(* which either is cheaper as the answer is long or short, and one that       *)
(* reprices; windows, tools and postures are declared or not.                *)

Declares(provider, base, posture) ==
    [provider |-> provider, base |-> [input |-> base[1], output |-> base[2]],
     beyond |-> {}, settlesFree |-> FALSE, posture |-> posture,
     window |-> -1, tools |-> "unknown", modalities |-> {}]

CatalogLanes ==
    [local |-> [Declares("home", <<0, 0>>, "zero") EXCEPT
                  !.settlesFree = TRUE, !.window = 4, !.tools = "no", !.modalities = {"text"}],
     terse |-> [Declares("A", <<1, 6>>, "standard") EXCEPT !.window = 8, !.tools = "yes",
                  !.modalities = {"text", "image"}],
     wordy |-> [Declares("B", <<3, 1>>, "zero") EXCEPT !.tools = "yes", !.modalities = {"text"}],
     steep |-> [Declares("home", <<0, 0>>, "standard") EXCEPT
                  !.settlesFree = TRUE, !.window = 8, !.tools = "yes",
                  !.beyond = {[input |-> 1, output |-> 1]}]]

OnHouse(id) == [id |-> id, byok |-> FALSE]
OnTheirs(id) == [id |-> id, byok |-> TRUE]

BuiltRoutes ==
    {[routed |-> FALSE, rungs |-> <<OnHouse("wordy"), OnHouse("terse"), OnHouse("local")>>],
     [routed |-> FALSE, rungs |-> <<OnHouse("local")>>],
     [routed |-> FALSE, rungs |-> <<OnTheirs("wordy"), OnHouse("wordy"), OnHouse("steep")>>],
     [routed |-> TRUE, rungs |-> <<OnHouse("terse"), OnHouse("wordy"), OnHouse("local")>>],
     [routed |-> TRUE, rungs |-> <<OnHouse("wordy"), OnTheirs("terse"), OnHouse("terse")>>],
     [routed |-> FALSE, rungs |-> <<OnTheirs("wordy")>>]}

Asked(size, uses, modalities, stream) ==
    [size |-> size, tools |-> uses, modalities |-> modalities, stream |-> stream]

RequestShapes ==
    {Asked(2, FALSE, {"text"}, TRUE), Asked(6, FALSE, {"text"}, FALSE),
     Asked(2, TRUE, {"text"}, FALSE), Asked(2, FALSE, {"text", "image"}, TRUE)}

\* One request with every retry budget above one, larger amounts, a TTL it may
\* outlive, credit that may be clawed back and a payload this build may not read.
O == INSTANCE Settlement WITH
    Requests <- {"r"}, Users <- {"u"}, Owner <- [r |-> "u"],
    MaxCost <- 2, MaxBalance <- 2, SettlementAttempts <- 2,
    MaxSettleAttempts <- 3, RequireCredits <- TRUE,
    LateRequests <- TRUE, ForeignBuilds <- {"r"},
    rows <- v1, events <- v2, charged <- v3, balance <- v4, pc <- v5,
    tries <- v6, reserved <- v7, cost <- v8, marker <- v9, batch <- v10,
    stamping <- v11, collecting <- v12, foreign <- v13

-----------------------------------------------------------------------------

\* What the proofs take of the constants holds of these.
ASSUME UsageAssumptions ==
    Chat!ChatAssumption /\ Messages!MessagesAssumption

\* What does not run is in one of its initial states.
WiresInit ==
    /\ component \in Components
    /\ Init /\ InventoryInit /\ SelectionInit /\ Chat!Init /\ Messages!Init
    /\ component = "walk" \/ attached = {}
    /\ component = "inventory" \/ Absent \notin Range(env)
    /\ component = "chat" \/ numbered
    /\ \/ component \in {"walk", "inventory", "selection", "chat", "messages"} /\ Unused
       \/ component = "responses" /\ R!Init /\ Unused9
       \/ component = "conversation" /\ C!Init /\ Unused4
       \/ component = "outbox" /\ O!Init

routing == <<inventoryVars, selectionVars>>
streams == <<vars, routing, wireVars>>

Walks ==
    component = "walk" /\ WalkNext
    /\ UNCHANGED <<component, slots, routing, wireVars>>

Owes == component = "outbox" /\ UNCHANGED <<component, streams>>

WiresNext ==
    /\ UNCHANGED component
    /\ \/ component = "walk" /\ Next /\ UNCHANGED <<routing, wireVars, slots>>
       \/ component = "inventory" /\ InventoryNext
             /\ UNCHANGED <<vars, selectionVars, wireVars, slots>>
       \/ component = "selection" /\ SelectionNext
             /\ UNCHANGED <<vars, inventoryVars, wireVars, slots>>
       \/ component = "chat" /\ Chat!Next /\ UNCHANGED <<vars, routing, messagesVars, slots>>
       \/ component = "messages" /\ Messages!Next /\ UNCHANGED <<vars, routing, chatVars, slots>>
       \/ component = "responses" /\ R!Next /\ UNCHANGED <<streams, far>>
       \/ component = "conversation" /\ C!Next
             /\ UNCHANGED <<streams, v5, v6, v7, v8, v9, far>>
       \/ Owes /\ O!Next

all == <<component, streams, slots>>

\* The walk's task is scheduled; the recovery task runs every minute for as long as
\* a process is up, is not killed in every pass, and the database accepts a write
\* now and then.
WiresSpec ==
    /\ WiresInit /\ [][WiresNext]_all
    /\ WF_all(Walks \/ (Owes /\ O!RecoverySelects))
    /\ SF_all(Owes /\ O!RecoveryParks("r"))
    /\ SF_all(Owes /\ O!RecoveryReplays("r"))
    /\ SF_all(Owes /\ O!RecoveryStamps("r"))

-----------------------------------------------------------------------------

\* A walk ends: a stream that keeps talking meets its deadline, and everything
\* else a walk waits for has one of its own (stream_to_channel).
WalkTerminates == <>(component = "walk" => pc = "done")

\* Every recorded debt is eventually collected or handed to an operator, even when
\* the request that recorded it is gone and replays keep failing
\* (recover_owed_settlements, record_settle_failure).
DebtResolved ==
    (component = "outbox" /\ O!Owed("r")) ~> (component = "outbox" /\ ~O!Owed("r"))

\* An answer that ends well is whole, in each dialect, and what this router
\* writes another one reads (stream_chat and parse_envelope of the Responses
\* wire on the frames of ResponsesStream).
AnswerWhole ==
    /\ Chat!AnswerWhole /\ Messages!AnswerWhole
    /\ component = "responses" => R!ReadBack /\ R!TerminalRestates

\* A conversation arrives as one an upstream with rules on turns accepts, with
\* nothing of it lost or moved, and the cache boundaries it pays for are those the
\* client names (build_anthropic_messages, translate_function_call,
\* messages_request_body).
ArrivesWhole ==
    component = "conversation" =>
        /\ C!MessagesAcceptable /\ C!CallsStayTogether /\ C!NothingLost
        /\ C!MarksWhereNamed
=============================================================================
