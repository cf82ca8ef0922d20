--------------------------- MODULE ResponsesStream ---------------------------
(***************************************************************************)
(* An answer served in the Responses dialect, streamed or buffered         *)
(* (router/src/responses.rs, StreamWire of api.rs), and what a router      *)
(* placed in front of this one reads from it with its own client           *)
(* (router/src/wire/responses.rs).                                         *)
(*                                                                         *)
(* A piece of output is a record of its kind and its number in the answer. *)
(* Frames carry a sequence number, their place in frames.                  *)
(***************************************************************************)
EXTENDS Integers, Sequences, SequencesExt

CONSTANT MaxPieces      \* bound: pieces of output

VARIABLES
    produced,   \* pieces the model put out
    items,      \* ResponsesStream.items: [kind, pieces]
    frames,     \* frames written, in order
    clipped,    \* the completion reached max_tokens
    writing,    \* "streaming", or how writing ended: "completed", "failed",
                \* "buffered"
    taken,      \* frames the reader took
    read,       \* what the reader yielded: text and calls
    metered,    \* usage reports it yielded
    verdict     \* "open", "failed", or the stop reason of its Final

vars == <<produced, items, frames, clipped, writing, taken, read, metered, verdict>>

Piece(kind) == [kind |-> kind, nr |-> Len(produced) + 1]
OfKind(pieces, kinds) == SelectSeq(pieces, LAMBDA p : p.kind \in kinds)

Init ==
    /\ produced = <<>> /\ items = <<>> /\ frames = <<>>
    /\ clipped \in BOOLEAN
    /\ writing = "streaming"
    /\ taken = 0 /\ read = <<>> /\ metered = 0
    /\ verdict = "open"

-----------------------------------------------------------------------------
(* The envelope.                                                           *)

\* finish_reason: calls come before the ceiling.
FinishReason(pieces) ==
    CASE OfKind(pieces, {"call"}) # <<>> -> "tool_calls"
      [] OfKind(pieces, {"call"}) = <<>> /\ clipped -> "length"
      [] OTHER -> "stop"

\* envelope: its status is the finish reason, its output the items.
Envelope(output, finish) ==
    [status |-> IF finish = "length" THEN "incomplete" ELSE "completed",
     reason |-> IF finish = "length" THEN "max_output_tokens" ELSE "none",
     output |-> output]

\* items_from_completion: the reasoning, the text, then each call.
ItemsFromCompletion(pieces) ==
    LET folded(kind) ==
            IF OfKind(pieces, {kind}) = <<>> THEN <<>>
            ELSE <<[kind |-> kind, pieces |-> OfKind(pieces, {kind})]>>
        calls == OfKind(pieces, {"call"})
    IN  folded("reasoning") \o folded("text")
        \o [i \in DOMAIN calls |-> [kind |-> "call", pieces |-> <<calls[i]>>]]

-----------------------------------------------------------------------------
(* The stream.                                                             *)

\* open_item: the last item if it is of the kind, otherwise a new one.
OpenItem(list, kind) ==
    IF list # <<>> /\ Last(list).kind = kind THEN Len(list) ELSE Len(list) + 1

\* The items with a delta, text_delta and reasoning_delta.
Added(list, piece) ==
    LET i == OpenItem(list, piece.kind) IN
    IF i \in DOMAIN list THEN [list EXCEPT ![i].pieces = Append(@, piece)]
    ELSE Append(list, [kind |-> piece.kind, pieces |-> <<piece>>])

Frame(type, index, piece) == [type |-> type, index |-> index, piece |-> piece]

\* open: the first output is preceded by response.created.
Opened == IF frames = <<>> THEN <<[type |-> "created"]>> ELSE frames

Writing == writing = "streaming" /\ verdict = "open"

\* A text or a reasoning delta.
Delta(kind) ==
    /\ Writing /\ Len(produced) < MaxPieces
    /\ produced' = Append(produced, Piece(kind))
    /\ items' = Added(items, Piece(kind))
    /\ frames' = Append(Opened, Frame(kind, OpenItem(items, kind), Piece(kind)))
    /\ UNCHANGED <<clipped, writing, taken, read, metered, verdict>>

\* tool_call: four frames, the last with the whole call.
CallFrames(index, piece) ==
    << Frame("added", index, piece), Frame("arguments", index, piece),
       Frame("argumentsDone", index, piece), Frame("done", index, piece) >>

ToolCall ==
    /\ Writing /\ Len(produced) < MaxPieces
    /\ produced' = Append(produced, Piece("call"))
    /\ items' = Append(items, [kind |-> "call", pieces |-> <<Piece("call")>>])
    /\ frames' = Opened \o CallFrames(Len(items) + 1, Piece("call"))
    /\ UNCHANGED <<clipped, writing, taken, read, metered, verdict>>

\* finish: one terminal frame restates the whole response.
Complete ==
    /\ Writing
    /\ frames' = Append(Opened, [type |-> "terminal",
                     response |-> Envelope(items, FinishReason(produced))])
    /\ writing' = "completed"
    /\ UNCHANGED <<produced, items, clipped, taken, read, metered, verdict>>

\* error: no terminal, and no sentinel after it.
WriteError ==
    /\ Writing
    /\ frames' = Append(frames, [type |-> "error"])
    /\ writing' = "failed"
    /\ UNCHANGED <<produced, items, clipped, taken, read, metered, verdict>>

-----------------------------------------------------------------------------
(* The reader.                                                             *)

\* responses_stop_reason.
StopReason(response, calls) ==
    CASE response.status = "completed" /\ calls -> "tool_calls"
      [] response.status = "completed" /\ ~calls -> "stop"
      [] response.status = "incomplete" /\ response.reason = "max_output_tokens" ->
             "length"
      [] OTHER -> "unknown"

\* parse_envelope: the text of all messages joined, the calls in order.
Parsed(response) ==
    LET out == response.output
        all(kind) == FoldLeft(LAMBDA s, item : s \o OfKind(item.pieces, {kind}),
                              <<>>, out)
    IN  [text |-> all("text"), calls |-> all("call"),
         stop |-> StopReason(response, all("call") # <<>>)]

\* stream_chat takes one event; of a call only the last of its frames.
Take ==
    /\ verdict = "open" /\ taken < Len(frames)
    /\ LET frame == frames[taken + 1] IN
       /\ taken' = taken + 1
       /\ read' = IF frame.type \in {"text", "done"} THEN Append(read, frame.piece)
                  ELSE read
       /\ metered' = IF frame.type = "terminal" THEN metered + 1 ELSE metered
       /\ verdict' = CASE frame.type = "terminal" ->
                              StopReason(frame.response, OfKind(read, {"call"}) # <<>>)
                       [] frame.type = "error" -> "failed"
                       [] OTHER -> verdict
    /\ UNCHANGED <<produced, items, frames, clipped, writing>>

\* The connection closes, or breaks: without a terminal that is a failure.
Close ==
    /\ verdict = "open"
    /\ verdict' = "failed"
    /\ UNCHANGED <<produced, items, frames, clipped, writing, taken, read, metered>>

\* A completion that was not streamed, answered and read whole.
Buffered ==
    /\ Writing /\ frames = <<>>
    /\ \E kinds \in SeqOf({"text", "reasoning", "call"}, MaxPieces) :
         LET pieces == [i \in DOMAIN kinds |-> [kind |-> kinds[i], nr |-> i]]
             output == ItemsFromCompletion(pieces)
             parsed == Parsed(Envelope(output, FinishReason(pieces)))
         IN  /\ produced' = pieces /\ items' = output
             /\ read' = parsed.text \o parsed.calls
             /\ verdict' = parsed.stop
    /\ writing' = "buffered" /\ metered' = 1
    /\ UNCHANGED <<frames, clipped, taken>>

Next ==
    \/ \E kind \in {"text", "reasoning"} : Delta(kind)
    \/ ToolCall \/ Complete \/ WriteError \/ Take \/ Close \/ Buffered

Spec == Init /\ [][Next]_vars

-----------------------------------------------------------------------------
(* Properties.                                                             *)

\* What the reader is meant to have: reasoning is not passed on.
Heard(pieces) == OfKind(pieces, {"text", "call"})

\* A router in front of this one reads what was written: a prefix of the text
\* and the calls in their order while it lasts, all of them, one usage and this
\* router's own finish reason once it ends well, and an answer cut short never
\* ends well (stream_chat of the Responses wire on the frames of tool_call and
\* completed; parse_envelope on envelope).
ReadBack ==
    /\ writing # "buffered" => IsPrefix(read, Heard(produced))
    /\ verdict \notin {"open", "failed"} =>
        /\ writing \in {"completed", "buffered"}
        /\ writing = "completed" => read = Heard(produced)
        /\ writing = "buffered" =>
             read = OfKind(produced, {"text"}) \o OfKind(produced, {"call"})
        /\ metered = 1
        /\ verdict = FinishReason(produced)

\* The terminal restates the stream: every frame named the item of the final
\* output that holds its piece, the items hold all pieces in their order, and
\* who reads the terminal alone has the answer of who read the stream
\* (open_item, completed).
TerminalRestates ==
    writing = "completed" =>
        LET response == Last(frames).response IN
        /\ \A i \in DOMAIN frames :
             "piece" \in DOMAIN frames[i] =>
                 /\ frames[i].index \in DOMAIN response.output
                 /\ frames[i].piece \in ToSet(response.output[frames[i].index].pieces)
        /\ FoldLeft(LAMBDA s, item : s \o item.pieces, <<>>, response.output) = produced
        /\ Parsed(response) =
             [text |-> OfKind(produced, {"text"}), calls |-> OfKind(produced, {"call"}),
              stop |-> FinishReason(produced)]
=============================================================================
