--------------------------- MODULE MessagesStream ---------------------------
(***************************************************************************)
(* One streamed answer of an upstream that speaks Anthropic's Messages     *)
(* events, as server-sent events or in AWS's binary event-stream frames,   *)
(* and what the router's clients for the two make of it                    *)
(* (router/src/wire/anthropic.rs, bedrock_runtime.rs, eventstream.rs and   *)
(* drain_sse_payloads of mod.rs).                                          *)
(*                                                                         *)
(* An event travels as a frame of two halves, of which a network read may  *)
(* bring any number.  Text and the stop reason pass through as they come   *)
(* and are left out; so is what follows a Final, at which the walk drops   *)
(* the stream.                                                             *)
(***************************************************************************)
EXTENDS Integers, Sequences, SequencesExt

CONSTANTS
    NumCalls,       \* tool calls of the answer
    Pieces,         \* fragments the input of one arrives in
    Counters,       \* the cumulative usage the upstream states: a sequence of
                    \* records over Fields, Unstated where it is silent
    Unstated,
    Believable,     \* MAX_BELIEVABLE_TOKENS
    MaxOpen,        \* MAX_OPEN_TOOL_BLOCKS
    MaxInFlight,    \* bound: frames sent and not received
    MaxReplays      \* bound: stale usage events sent again

Calls == 1..NumCalls
Fields == {"input", "output", "read", "creation"}

VARIABLES
    told,           \* snapshots of Counters stated so far
    replays,        \* bound: stale snapshots so far
    sent,           \* of each call: the stage of its block and the fragments
                    \* of its input
    stopped,        \* message_stop was sent
    pipe,           \* frames in flight: [event, intact]
    half,           \* the first half of the first of them was received
    machine         \* AnthropicStreamMachine, with what it yielded and how the
                    \* stream ended

vars == <<told, replays, sent, stopped, pipe, half, machine>>

Silent == [f \in Fields |-> Unstated]
States(r, f) == r[f] # Unstated

Init ==
    /\ told = 0 /\ replays = 0
    /\ sent = [c \in Calls |-> [stage |-> "unsent", pieces |-> 0]]
    /\ stopped = FALSE
    /\ pipe = <<>> /\ half = FALSE
    /\ machine = [usage |-> Silent, heard |-> 0, tools |-> [c \in {} |-> <<>>],
                  events |-> <<>>, end |-> "open"]

-----------------------------------------------------------------------------
(* The machine.                                                            *)

\* absorb_usage: counters only rise.
Raised(u, r) ==
    [f \in Fields |->
        IF States(r, f) /\ (~States(u, f) \/ r[f] > u[f]) THEN r[f] ELSE u[f]]

OrZero(u, f) == IF States(u, f) THEN u[f] ELSE 0

\* into_token_usage: the prompt is the sum of the three disjoint buckets.
TokenUsage(u) ==
    [prompt |-> IF States(u, "input")
                THEN u["input"] + OrZero(u, "read") + OrZero(u, "creation")
                ELSE Unstated,
     completion |-> u["output"],
     cached |-> OrZero(u, "read"),
     written |-> OrZero(u, "creation")]

Billable(t) == t.prompt # Unstated \/ t.completion # Unstated

Plausible(t) ==
    \A n \in {t.prompt, t.completion, t.cached, t.written} : n = Unstated \/ n <= Believable

\* partial_usage, and the usage of a terminal.
PartialUsage(m) ==
    LET t == TokenUsage(m.usage) IN
    IF Billable(t) /\ Plausible(t) THEN <<[kind |-> "usage", usage |-> t]>> ELSE <<>>

Yields(m, more) == [m EXCEPT !.events = @ \o more]

\* Every abnormal exit yields what usage was reported before it fails.
Failed(m) == [Yields(m, PartialUsage(m)) EXCEPT !.end = "failed"]

Opens(m, c) ==
    IF Cardinality(DOMAIN m.tools) >= MaxOpen THEN Failed(m)
    ELSE [m EXCEPT !.tools = [d \in DOMAIN @ \cup {c} |->
                                 IF d = c THEN <<>> ELSE @[d]]]

\* content_block_stop: no more of the call follows.
Closes(m, c) ==
    IF c \notin DOMAIN m.tools THEN m
    ELSE [Yields(m, <<[kind |-> "call", call |-> c, pieces |-> m.tools[c]]>>)
            EXCEPT !.tools = [d \in DOMAIN @ \ {c} |-> @[d]]]

\* message_stop is the only terminal; a block that is still open is dropped.
Finishes(m) ==
    [Yields(m, PartialUsage(m) \o <<[kind |-> "final"]>>) EXCEPT !.end = "final"]

\* handle.
Handle(m, event) ==
    CASE event.type = "usage" ->
             [m EXCEPT !.usage = Raised(@, Counters[event.of]),
                       !.heard = IF event.of > @ THEN event.of ELSE @]
      [] event.type = "open" -> Opens(m, event.of)
      [] event.type = "piece" ->
             IF event.of \in DOMAIN m.tools
             THEN [m EXCEPT !.tools[event.of] = Append(@, Len(@) + 1)] ELSE m
      [] event.type = "close" -> Closes(m, event.of)
      [] event.type = "stop" -> Finishes(m)
      [] event.type = "error" -> Failed(m)

-----------------------------------------------------------------------------
(* The transport.                                                          *)

\* interpret_frame, or the JSON of an event: a frame that fails its checksum or
\* does not parse ends the stream, which cannot be resynchronised.
Received(m, frame) ==
    CASE m.end # "open" -> m
      [] m.end = "open" /\ frame.intact -> Handle(m, frame.event)
      [] OTHER -> Failed(m)

Open == machine.end = "open"

\* The frames of a read, handled in order.
ReceivedFirst(n) ==
    LET upto[i \in 0..n] == IF i = 0 THEN machine ELSE Received(upto[i - 1], pipe[i])
    IN  upto[n]

\* push and drain_sse_payloads: a read completes any number of frames, handled
\* in order, and may leave one half received.
Read(halves) ==
    LET n == halves + (IF half THEN 1 ELSE 0)
    IN  /\ Open /\ n <= 2 * Len(pipe)
        /\ machine' = ReceivedFirst(n \div 2)
        /\ pipe' = SubSeq(pipe, n \div 2 + 1, Len(pipe))
        /\ half' = (n % 2 = 1)
        /\ UNCHANGED <<told, replays, sent, stopped>>

\* The socket closes or breaks, mid-frame or between two; or a frame grows past
\* its bound.  What was in flight is lost.
Cut ==
    /\ Open
    /\ machine' = Failed(machine)
    /\ UNCHANGED <<told, replays, sent, stopped, pipe, half>>

-----------------------------------------------------------------------------
(* The upstream.                                                           *)

Sends(event) ==
    /\ Open /\ ~stopped /\ Len(pipe) < MaxInFlight
    /\ \E intact \in BOOLEAN :
         pipe' = Append(pipe, [event |-> event, intact |-> intact])
    /\ UNCHANGED <<half, machine>>

\* message_start or message_delta: the counters as they stand.
StatesUsage ==
    /\ told < Len(Counters)
    /\ told' = told + 1
    /\ Sends([type |-> "usage", of |-> told + 1])
    /\ UNCHANGED <<replays, sent, stopped>>

\* An earlier usage event is sent again.
Replays(k) ==
    /\ k <= told /\ replays < MaxReplays
    /\ replays' = replays + 1
    /\ Sends([type |-> "usage", of |-> k])
    /\ UNCHANGED <<told, sent, stopped>>

\* content_block_start; blocks may be open at once.
OpensBlock(c) ==
    /\ sent[c].stage = "unsent"
    /\ \A b \in Calls : b < c => sent[b].stage # "unsent"
    /\ sent' = [sent EXCEPT ![c].stage = "open"]
    /\ Sends([type |-> "open", of |-> c])
    /\ UNCHANGED <<told, replays, stopped>>

\* An input_json_delta.
SendsPiece(c) ==
    /\ sent[c].stage = "open" /\ sent[c].pieces < Pieces
    /\ sent' = [sent EXCEPT ![c].pieces = @ + 1]
    /\ Sends([type |-> "piece", of |-> c])
    /\ UNCHANGED <<told, replays, stopped>>

\* content_block_stop, in the middle of the input if the answer was clipped there.
ClosesBlock(c) ==
    /\ sent[c].stage = "open"
    /\ sent' = [sent EXCEPT ![c].stage = "closed"]
    /\ Sends([type |-> "close", of |-> c])
    /\ UNCHANGED <<told, replays, stopped>>

\* message_stop, whatever blocks were left open.
SendsStop ==
    /\ Sends([type |-> "stop"])
    /\ stopped' = TRUE
    /\ UNCHANGED <<told, replays, sent>>

SendsError ==
    /\ Sends([type |-> "error"])
    /\ stopped' = TRUE
    /\ UNCHANGED <<told, replays, sent>>

Next ==
    \/ StatesUsage \/ SendsStop \/ SendsError \/ Cut
    \/ \E k \in DOMAIN Counters : Replays(k)
    \/ \E c \in Calls : OpensBlock(c) \/ SendsPiece(c) \/ ClosesBlock(c)
    \/ \E halves \in 1..(2 * MaxInFlight) : Read(halves)

Spec == Init /\ [][Next]_vars

\* What a snapshot states is a count, and counters are cumulative.
MessagesAssumption ==
    /\ NumCalls \in Nat /\ Pieces \in Nat
    /\ Unstated \notin Nat
    /\ Counters \in Seq([Fields -> Nat \cup {Unstated}])
    /\ \A i, j \in DOMAIN Counters, f \in Fields :
         i <= j /\ States(Counters[i], f) /\ States(Counters[j], f) =>
            Counters[i][f] <= Counters[j][f]

-----------------------------------------------------------------------------
(* Properties.                                                             *)

Yielded(kind) == SelectSeq(machine.events, LAMBDA e : e.kind = kind)

\* Where a machine yielded a usage.
Bills(m) == {i \in DOMAIN m.events : m.events[i].kind = "usage"}

\* The counters as the k-th snapshot left them: the last figure of each field.
AsOf(k) ==
    [f \in Fields |->
        LET by == {j \in 1..k : States(Counters[j], f)} IN
        IF by = {} THEN Unstated
        ELSE Counters[CHOOSE j \in by : \A i \in by : i <= j][f]]

\* However a stream ends, the usage that reached the router is yielded once and
\* stands at the latest snapshot received, whatever was sent again or cut off
\* after it (absorb_usage, partial_usage, message_stop).
UsageKept ==
    LET latest == TokenUsage(AsOf(machine.heard))
        owed == ~Open /\ Billable(latest) /\ Plausible(latest)
    IN  /\ ~owed => Bills(machine) = {}
        /\ owed =>
             \E i \in DOMAIN machine.events :
                Bills(machine) = {i} /\ machine.events[i].usage = latest

\* However the reads divide what was sent, a call is handed over once, when its
\* upstream closed it, with all that was sent of it and nothing of another; and an
\* answer ends well only if the upstream said so, with every call it closed, and
\* never with one it left open (content_block_stop, message_stop, push).
AnswerWhole ==
    /\ \A i \in DOMAIN Yielded("call") :
         LET call == Yielded("call")[i] IN
         /\ sent[call.call].stage = "closed"
         /\ call.pieces = [nr \in 1..sent[call.call].pieces |-> nr]
    /\ \A i, j \in DOMAIN Yielded("call") :
         Yielded("call")[i].call = Yielded("call")[j].call => i = j
    /\ machine.end = "final" =>
         /\ stopped
         /\ {e.call : e \in ToSet(Yielded("call"))}
              = {c \in Calls : sent[c].stage = "closed"}
=============================================================================
