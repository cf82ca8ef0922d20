------------------------------- MODULE Streams -------------------------------
(***************************************************************************)
(* A streamed request: the clients of its rungs (Inventory), the order     *)
(* they are walked in and the labels of the answer (Selection), the walk   *)
(* over them (StreamWalk), and the stream of an upstream that speaks chat  *)
(* completions (Chat) and of one that speaks Messages events (Messages).   *)
(* Each has its own variables: a rung is a client to the first, a lane to  *)
(* the second and a health key to the third, and the walk knows of a       *)
(* stream only that it delivers, reports and ends.                         *)
(***************************************************************************)
EXTENDS StreamWalk, Inventory, Selection

CONSTANTS
    ChatCalls, ChatPieces, Reports, MaxReports,         \* of ChatStream
    BlockCalls, BlockPieces, Counters,                  \* of MessagesStream
    MaxInFlight, MaxReplays,
    Unstated, Believable, MaxOpen                       \* of both

VARIABLES
    numbered, stated, chatSent, usage, tools,           \* of ChatStream
    finished, sawDone, events, end,
    told, replays, blockSent, stopped, pipe,            \* of MessagesStream
    half, machine

Chat == INSTANCE ChatStream WITH
    NumCalls <- ChatCalls, Pieces <- ChatPieces, sent <- chatSent

Messages == INSTANCE MessagesStream WITH
    NumCalls <- BlockCalls, Pieces <- BlockPieces, sent <- blockSent

chatVars == <<numbered, stated, chatSent, usage, tools, finished, sawDone, events, end>>
messagesVars == <<told, replays, blockSent, stopped, pipe, half, machine>>
wireVars == <<chatVars, messagesVars>>

\* What an upstream reported of its cost outlives the end of its stream, in either
\* dialect: yielded once, as it was last stated (absorb_usage and partial_usage of
\* both machines).
UsageKept == Chat!UsageKept /\ Messages!UsageKept

\* What is listed is what a route holds; every rung of it is dialled as the
\* inventory declares, by the party it is billed to and under the guarantee it is
\* sold with; and it is walked in the order its declarations and what was read of
\* the estimator and the registry give, under labels true of the rung that answers
\* (dispatchable, build_with_byok, create_provider, order_candidates,
\* unanimous_transparency); and the house answers in the place of a customer's key
\* for a provider only once that key failed (byok_fallback_for, stream_to_channel).
RoutedAsDeclared ==
    /\ RoutedAsListed /\ DialsAsBilled /\ GuaranteeAsserted /\ ShippedKeysStayHome
    /\ OrderedAsRead /\ LabelledAsServed /\ AdvertisedIsServable
    /\ FallbackEarned
=============================================================================
