---------------------------- MODULE Conversation ----------------------------
(***************************************************************************)
(* What becomes of a conversation on its way through the router: the       *)
(* client's messages or Responses items, the router's own messages         *)
(* (router/src/responses.rs, openai.rs), and the body each upstream        *)
(* dialect is sent (router/src/wire/anthropic.rs, chat_completions.rs,     *)
(* responses.rs).  A client carries the whole history in every request, so *)
(* a step extends the history and the bodies are functions of it.          *)
(*                                                                         *)
(* A message is a record of its role, its content parts, the calls it      *)
(* makes, the call it answers, whether it carries reasoning, and whether   *)
(* it carries a cache_control of its own; a Responses item is the message  *)
(* it stands for.  What a piece of content says is its place in the        *)
(* history.                                                                *)
(***************************************************************************)
EXTENDS Integers, Sequences, SequencesExt

CONSTANTS
    Shapes,         \* by surface, the messages or items a client may send
    ToolLists,      \* the tools of a request: which of them are marked
    MaxItems,       \* bound: items of a history
    MaxBreakpoints  \* MAX_CACHE_BREAKPOINTS

VARIABLES
    surface,        \* "chat" or "responses"
    tools,
    history,        \* what the client sent
    messages        \* ChatCompletionRequest.messages

vars == <<surface, tools, history, messages>>

Piece(i, j) == <<"part", i, j>>
Call(id) == <<"call", id>>
Result(id) == <<"result", id>>

CallsOf(list) == FoldLeft(LAMBDA s, m : s \o m.calls, <<>>, list)
Answers(list) == {list[i].answers : i \in DOMAIN list} \ {0}

\* The item of a shape: content numbered by its place, calls by their order.
Item(shape, answered) ==
    LET i == Len(history) + 1 IN
    [role |-> shape.role,
     parts |-> [j \in DOMAIN shape.parts |->
                   [of |-> Piece(i, j), type |-> shape.parts[j].type,
                    mark |-> shape.parts[j].mark]],
     calls |-> [n \in 1..shape.calls |-> Len(CallsOf(history)) + n],
     answers |-> answered, reasoning |-> shape.reasoning, mark |-> shape.mark]

-----------------------------------------------------------------------------
(* The router's messages.                                                  *)

\* translate_item: a function_call joins the assistant turn ahead of it.
Translated(list, item) ==
    IF item.calls # <<>> /\ list # <<>> /\ Last(list).role = "assistant"
    THEN [list EXCEPT ![Len(list)].calls = @ \o item.calls]
    ELSE Append(list, item)

\* cache_breakpoints: on messages, tools and parts, under one cap.
Breakpoints(list) ==
    Cardinality({i \in DOMAIN list : list[i].mark})
    + Cardinality({i \in DOMAIN tools : tools[i]})
    + Cardinality({<<i, p>> \in (DOMAIN list) \X UNION {ToSet(m.parts) : m \in ToSet(list)} :
                      p \in ToSet(list[i].parts) /\ p.mark})

Init ==
    /\ surface \in {"chat", "responses"}
    /\ tools \in ToolLists
    /\ surface = "responses" => \A i \in DOMAIN tools : ~tools[i]
    /\ history = <<>> /\ messages = <<>>

\* A request with one item more.  A tool message names the call it answers.
Extend(shape) ==
    /\ Len(history) < MaxItems
    /\ \E answered \in IF shape.role = "tool"
                       THEN ToSet(CallsOf(history)) \ Answers(history) ELSE {0} :
         LET item == Item(shape, answered) IN
         /\ history' = Append(history, item)
         /\ messages' = IF surface = "responses" THEN Translated(messages, item)
                        ELSE Append(messages, item)
    /\ Breakpoints(messages') <= MaxBreakpoints
    /\ UNCHANGED <<surface, tools>>

Next == \E shape \in Shapes[surface] : Extend(shape)

Spec == Init /\ [][Next]_vars

\* content_to_text: parts that are text and not blank, and so speak.
Text(m) ==
    LET spoken == SelectSeq(m.parts, LAMBDA p : p.type = "text") IN
    [j \in DOMAIN spoken |-> spoken[j].of]

\* content_to_parts: an image or a marked part keeps a user turn in parts.
Structured(m) ==
    m.role = "user" /\ \E j \in DOMAIN m.parts :
                           m.parts[j].mark \/ m.parts[j].type = "image"

\* to_provider_message packs an assistant turn with calls or reasoning.
Packed(m) == m.role = "assistant" /\ (m.calls # <<>> \/ m.reasoning)

\* user_parts: without the blank ones.
UserParts(m) == SelectSeq(m.parts, LAMBDA p : p.type # "blank")

HasImage(m) == \E j \in DOMAIN m.parts : m.parts[j].type = "image"

-----------------------------------------------------------------------------
(* The Messages body.                                                      *)

Block(type, of, mark) == [type |-> type, of |-> of, mark |-> mark]

TextBlock(m) == IF Text(m) = <<>> THEN <<>> ELSE <<Block("text", Text(m), FALSE)>>

\* push_user_content and the arms of build_anthropic_messages.
BlocksOf(m) ==
    CASE m.role = "user" /\ Structured(m) ->
             [j \in DOMAIN UserParts(m) |->
                 Block(UserParts(m)[j].type, <<UserParts(m)[j].of>>, UserParts(m)[j].mark)]
      [] m.role = "user" /\ ~Structured(m) -> TextBlock(m)
      [] m.role = "assistant" ->
             TextBlock(m) \o [n \in DOMAIN m.calls |->
                                 Block("tool_use", <<Call(m.calls[n])>>, FALSE)]
      [] m.role = "tool" -> <<Block("tool_result", <<Result(m.answers)>>, FALSE)>>
      [] m.role = "system" -> <<>>

Side(m) == IF m.role = "assistant" THEN "assistant" ELSE "user"

\* push_anthropic_block: a run of one role is one turn.
Push(turns, m, blocks) ==
    CASE blocks = <<>> -> turns
      [] blocks # <<>> /\ turns # <<>> /\ Last(turns).role = Side(m) ->
             [turns EXCEPT ![Len(turns)].blocks = @ \o blocks]
      [] OTHER -> Append(turns, [role |-> Side(m), blocks |-> blocks])

\* mark_last_block.
MarkLast(turns) ==
    IF turns = <<>> THEN turns
    ELSE LET last == Last(turns).blocks IN
         [turns EXCEPT ![Len(turns)].blocks[Len(last)].mark = TRUE]

\* Mutant: without the block cursor.
PlacedAnywhere(turns, m) ==
    LET after == Push(turns, m, BlocksOf(m)) IN
    IF m.mark /\ m.role # "system" THEN MarkLast(after) ELSE after

\* A message and its own breakpoint, on the last block it produced.
Placed(turns, m) ==
    LET after == Push(turns, m, BlocksOf(m)) IN
    IF m.mark /\ BlocksOf(m) # <<>> THEN MarkLast(after) ELSE after

Uses(turn) == SelectSeq(turn.blocks, LAMBDA b : b.type = "tool_use")
Results(turn) == {b \in ToSet(turn.blocks) : b.type = "tool_result"}

\* The results a turn of calls lacks in the turn after it.
Missing(turn, next) ==
    LET open == SelectSeq(Uses(turn), LAMBDA b :
                    Result(b.of[1][2]) \notin {Head(r.of) : r \in Results(next)})
    IN  [n \in DOMAIN open |->
            Block("tool_result", <<Result(open[n].of[1][2])>>, FALSE)]

Nothing == [role |-> "user", blocks |-> <<>>]

\* synthesize_missing_tool_results: at the head of the following user turn,
\* which is made when the history ends on calls.
Synthesized(turns) ==
    LET within == [i \in DOMAIN turns |->
                      IF i > 1 /\ turns[i].role = "user"
                      THEN [turns[i] EXCEPT !.blocks = Missing(turns[i - 1], turns[i]) \o @]
                      ELSE turns[i]]
    IN  IF turns # <<>> /\ Last(turns).role = "assistant" /\ Uses(Last(turns)) # <<>>
        THEN Append(within, [Nothing EXCEPT !.blocks = Missing(Last(turns), Nothing)])
        ELSE within

Systems == SelectSeq(messages, LAMBDA m : m.role = "system")
SystemText == FoldLeft(LAMBDA s, m : s \o Text(m), <<>>, Systems)

\* has_client_breakpoint, of a message as the wire gets it.
ClientPlaced ==
    \/ \E i \in DOMAIN messages :
         \/ messages[i].mark
         \/ Structured(messages[i])
            /\ \E j \in DOMAIN messages[i].parts : messages[i].parts[j].mark
    \/ \E i \in DOMAIN tools : tools[i]

\* messages_request_body: the client's breakpoints, or the wire's three.
MessagesBody ==
    LET turns == Synthesized(FoldLeft(Placed, <<>>, messages)) IN
    [system |-> SystemText,
     systemMark |-> /\ SystemText # <<>>
                    /\ ClientPlaced => \E i \in DOMAIN Systems : Systems[i].mark,
     turns |-> IF ClientPlaced THEN turns ELSE MarkLast(turns),
     tools |-> IF ClientPlaced THEN tools
               ELSE [i \in DOMAIN tools |-> i = Len(tools)]]

-----------------------------------------------------------------------------
(* The bodies of the two dialects of OpenAI's.                             *)

Entry(m, of) == [role |-> m.role, of |-> of, calls |-> m.calls, answers |-> m.answers]

\* build_chat_completions_messages: the system in place; a packed turn with
\* nothing to say or to call is dropped.
ChatBody ==
    LET kept == SelectSeq(messages, LAMBDA m :
                    ~(Packed(m) /\ Text(m) = <<>> /\ m.calls = <<>>))
    IN  [i \in DOMAIN kept |->
            Entry(kept[i], IF HasImage(kept[i])
                           THEN [j \in DOMAIN UserParts(kept[i]) |-> UserParts(kept[i])[j].of]
                           ELSE Text(kept[i]))]

\* build_responses_input: one item for the text, one for each call or result.
ItemsOf(m) ==
    LET said == IF HasImage(m)
                THEN [j \in DOMAIN UserParts(m) |-> UserParts(m)[j].of] ELSE Text(m)
    IN  CASE m.role = "system" -> <<>>
          [] m.role = "user" -> <<said>>
          [] m.role = "assistant" ->
                 (IF said = <<>> /\ Packed(m) THEN <<>> ELSE <<said>>)
                 \o [n \in DOMAIN m.calls |-> <<Call(m.calls[n])>>]
          [] m.role = "tool" -> <<<<Result(m.answers)>>>>

ResponsesBody ==
    [instructions |-> SystemText,
     input |-> FoldLeft(LAMBDA s, m : s \o ItemsOf(m), <<>>, messages)]

-----------------------------------------------------------------------------
(* Properties.                                                             *)

Turns == MessagesBody.turns

\* Whatever history a client sends, interrupted between its calls or cut off
\* after them, the Messages API can accept it: the turns alternate, none is
\* empty, and each call is answered once in the turn that follows it
\* (push_anthropic_block, synthesize_missing_tool_results).
MessagesAcceptable ==
    /\ \A i \in 1..(Len(Turns) - 1) : Turns[i].role # Turns[i + 1].role
    /\ \A i \in DOMAIN Turns : Turns[i].blocks # <<>>
    /\ \A i \in DOMAIN Turns : \A use \in ToSet(Uses(Turns[i])) :
         /\ i < Len(Turns)
         /\ Cardinality({n \in DOMAIN Turns[i + 1].blocks :
                LET b == Turns[i + 1].blocks[n] IN
                b.type = "tool_result" /\ Head(b.of) = Result(use.of[1][2])}) = 1

\* What an item says: its spoken parts, its calls, or the call it answers.
Said(m) ==
    IF m.role = "tool" THEN <<Result(m.answers)>>
    ELSE (LET spoken == UserParts(m) IN [j \in DOMAIN spoken |-> spoken[j].of])
         \o [n \in DOMAIN m.calls |-> Call(m.calls[n])]

SaidBy(list) == FoldLeft(LAMBDA s, m : s \o Said(m), <<>>, list)
IsSystem(m) == m.role = "system"

\* Every word, image, call and result of a history reaches the upstream once
\* and in its order, in each of the three dialects, the system's apart where
\* the dialect has one place for it; a result the client did not send, or sent
\* too late, is the only thing added (build_anthropic_messages, build_chat_completions_messages,
\* build_responses_input, translate_input).
NothingLost ==
    LET rest == SaidBy(SelectSeq(history, LAMBDA m : ~IsSystem(m)))
        system == SaidBy(SelectSeq(history, IsSystem))
        blocks == FoldLeft(LAMBDA s, t : s \o t.blocks, <<>>, Turns)
        carried == FoldLeft(LAMBDA s, b : s \o b.of, <<>>, blocks)
        theirs(of) == of[1] # "result" \/ of[2] \in Answers(history)
        late == {id \in Answers(history) :
                    Cardinality({n \in DOMAIN carried : carried[n] = Result(id)}) > 1}
    IN  /\ MessagesBody.system = system /\ ResponsesBody.instructions = system
        /\ late = {} => SelectSeq(carried, theirs) = rest
        /\ FlattenSeq(ResponsesBody.input) = rest
        /\ FoldLeft(LAMBDA s, e : s \o (IF e.answers # 0 THEN <<Result(e.answers)>>
                                        ELSE e.of \o [n \in DOMAIN e.calls |-> Call(e.calls[n])]),
                    <<>>, ChatBody) = SaidBy(history)

\* The boundaries a client names: the last word of a message it marks, a part
\* it marks, a tool; the system is one block, whatever of it is marked.
NamedIn(m) ==
    LET parts == {p \in ToSet(m.parts) : p.mark /\ p.type # "blank"} IN
    IF IsSystem(m)
    THEN {<<"system">> : x \in {y \in {m} : Said(y) # <<>> /\ (y.mark \/ parts # {})}}
    ELSE {Last(said) : said \in {Said(y) : y \in {z \in {m} : z.mark}} \ {<<>>}}
         \cup {p.of : p \in parts}

Named ==
    UNION {NamedIn(history[i]) : i \in DOMAIN history}
    \cup {<<"tool", i>> : i \in {n \in DOMAIN tools : tools[n]}}

Sent ==
    LET blocks == UNION {ToSet(Turns[i].blocks) : i \in DOMAIN Turns} IN
    {Last(b.of) : b \in {c \in blocks : c.mark}}
    \cup {<<"system">> : x \in {y \in {TRUE} : MessagesBody.systemMark}}
    \cup {<<"tool", i>> : i \in {n \in DOMAIN tools : MessagesBody.tools[n]}}

PartMarked(m) == \E j \in DOMAIN m.parts : m.parts[j].mark

AnyMark == Breakpoints(history) > 0

\* A request that names cache boundaries is sent with those and no other, so
\* its client pays for no write it did not ask for; one that names none gets
\* at most three; and Anthropic's cap is never passed (messages_request_body,
\* the block cursor of build_anthropic_messages).  Marks on the parts of
\* another message than the user's are left to BoundaryNamedIsSent.
MarksWhereNamed ==
    LET others == \E i \in DOMAIN history :
                      history[i].role # "user" /\ PartMarked(history[i])
    IN  /\ Cardinality(Sent) <= MaxBreakpoints
        /\ AnyMark /\ ~others => Sent = Named
        /\ ~AnyMark => Cardinality(Sent) <= 3

\* What unplaceable_cache_control says of a part's breakpoint: the boundary the
\* client named is the boundary sent upstream.
BoundaryNamedIsSent == AnyMark => Sent \subseteq Named

\* Each group of calls in a history is followed by their results: on the chat
\* surface those of a message, in the Responses dialect those of a run of
\* assistant items.
Proper ==
    \A i \in DOMAIN history : history[i].calls # <<>> =>
        LET run == {n \in i..Len(history) :
                       \A k \in i..n : history[k].role = "assistant"}
            last == IF surface = "chat" THEN i ELSE i + Cardinality(run) - 1
            made == ToSet(CallsOf(SubSeq(history, 1, last))) \ Answers(SubSeq(history, 1, last))
        IN  /\ last + Cardinality(made) <= Len(history)
            /\ Answers(SubSeq(history, last + 1, last + Cardinality(made))) = made

\* The chat dialect's rule: an assistant turn with calls is followed by their
\* results.
ChatAcceptable ==
    \A i \in DOMAIN ChatBody :
        LET calls == ChatBody[i].calls IN
        calls # <<>> =>
            /\ i + Len(calls) <= Len(ChatBody)
            /\ {ChatBody[n].answers : n \in i + 1..i + Len(calls)} = ToSet(calls)

SpeaksAfterCalling ==
    \E i \in 1..(Len(history) - 1) :
        /\ history[i].calls # <<>>
        /\ history[i + 1].role = "assistant" /\ history[i + 1].calls = <<>>

\* A history of calls with their results is one an upstream of the chat dialect
\* accepts, however the calls came apart into items (translate_function_call).
\* A turn that goes on speaking after its calls is left out: the merge keeps its
\* text apart, and the results no longer follow the calls.
CallsStayTogether == Proper /\ ~SpeaksAfterCalling => ChatAcceptable

=============================================================================
