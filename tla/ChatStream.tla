----------------------------- MODULE ChatStream -----------------------------
(***************************************************************************)
(* One streamed answer of an upstream that speaks chat completions, and    *)
(* what the router's client for it makes of the chunks                     *)
(* (router/src/wire/chat_completions.rs).                                  *)
(*                                                                         *)
(* The upstream sends fragments of tool calls, usage snapshots, a          *)
(* finish_reason and the [DONE] sentinel, each when it likes: one clipped  *)
(* at its ceiling says it is finished in the middle of a call.  It may     *)
(* stop at any point.  Text passes through as it comes and is left out; so *)
(* is what follows a Final, at which the walk drops the stream.            *)
(***************************************************************************)
EXTENDS Integers, Sequences, SequencesExt

CONSTANTS
    NumCalls,       \* tool calls of the answer
    Pieces,         \* fragments the arguments of one arrive in, numbered
    Reports,        \* usage snapshots it may state, Unstated or a count by field
    Unstated,
    MaxReports,     \* bound: snapshots in one stream
    Believable,     \* MAX_BELIEVABLE_TOKENS
    MaxOpen         \* MAX_OPEN_TOOL_BLOCKS

Calls == 1..NumCalls

VARIABLES
    numbered,       \* does the upstream number its fragments?  One that does
                    \* not sends each call whole, with its id
    stated,         \* the snapshots sent so far
    sent,           \* fragments sent of each call
    usage,          \* the accepted report
    tools,          \* open_tools: by slot, the id and the fragments
    finished,       \* finish_reason is set
    sawDone,        \* saw_done
    events,         \* what the client yielded: calls, a usage, a Final
    end             \* "open", "final" or "failed"

vars == <<numbered, stated, sent, usage, tools, finished, sawDone, events, end>>

Fields == {"prompt", "completion", "cached"}
Silent == [f \in Fields |-> Unstated]
States(r, f) == r[f] # Unstated

Init ==
    /\ numbered \in BOOLEAN
    /\ stated = <<>>
    /\ sent = [c \in Calls |-> 0]
    /\ usage = Silent
    /\ tools = <<>>
    /\ finished = FALSE /\ sawDone = FALSE
    /\ events = <<>>
    /\ end = "open"

-----------------------------------------------------------------------------
(* Usage.                                                                  *)

\* Mutant: the larger figure of each field.
HighWater(r) ==
    [f \in Fields |->
        IF States(r, f) /\ (~States(usage, f) \/ r[f] > usage[f]) THEN r[f]
        ELSE usage[f]]

\* absorb_usage: a report smaller than the accepted one in a field both state
\* is refused whole, any other replaces what it states.
Absorbed(r) ==
    IF \E f \in Fields : States(r, f) /\ States(usage, f) /\ r[f] < usage[f]
    THEN usage
    ELSE [f \in Fields |-> IF States(r, f) THEN r[f] ELSE usage[f]]

Billable(r) == States(r, "prompt") \/ States(r, "completion")

Plausible(r) == \A f \in Fields : States(r, f) => r[f] <= Believable

\* partial_usage: the accepted report, if it is believable and can be billed.
PartialUsage ==
    IF Plausible(usage) /\ Billable(usage)
    THEN <<[kind |-> "usage", usage |-> usage]>> ELSE <<>>

-----------------------------------------------------------------------------
(* Tool calls.                                                             *)

\* A fragment is the piece nr of a call, with its id or without, and with the
\* call's number if the upstream numbers them.
Fragment(c, nr, named) ==
    [call |-> c, nr |-> nr, id |-> IF named THEN c ELSE 0]

\* Mutant: position alone tells unnumbered calls apart.
AtPosition(open, fragment, position) ==
    IF numbered THEN fragment.call ELSE position

\* The slot of a fragment: its number; else its position in its chunk, unless
\* the slot there holds a call of another id, and then one above all in use.
Slot(open, fragment, position) ==
    CASE numbered -> fragment.call
      [] ~numbered /\ fragment.id # 0 /\ position \in DOMAIN open
           /\ open[position].id \notin {0, fragment.id} -> Len(open) + 1
      [] OTHER -> position

\* absorb_tool_fragments, on slots that are in use from the first.
Absorb(open, fragment, position) ==
    LET s == Slot(open, fragment, position)
        before == IF s \in DOMAIN open THEN open[s] ELSE [id |-> 0, pieces |-> <<>>]
        after == [id |-> IF fragment.id # 0 THEN fragment.id ELSE before.id,
                  pieces |-> Append(before.pieces, <<fragment.call, fragment.nr>>)]
    IN  IF s \in DOMAIN open THEN [open EXCEPT ![s] = after]
        ELSE Append(open, after)

\* The tool calls of a delta, in the order it lists them.
Assembled(chunk) ==
    LET upto[i \in 0..Len(chunk)] ==
          IF i = 0 THEN tools ELSE Absorb(upto[i - 1], chunk[i], i)
    IN  upto[Len(chunk)]

-----------------------------------------------------------------------------
(* The ends of a stream.                                                   *)

\* Every abnormal exit yields what usage was reported before it fails.
Fails ==
    /\ end' = "failed"
    /\ events' = events \o PartialUsage

\* terminate: the calls by slot, the usage, the Final.
Terminate ==
    /\ end' = "final"
    /\ events' = [s \in DOMAIN tools |->
                     [kind |-> "call", pieces |-> tools[s].pieces]]
                 \o PartialUsage \o <<[kind |-> "final"]>>

-----------------------------------------------------------------------------
(* The upstream's chunks.                                                  *)

Streaming == end = "open"

\* A usage snapshot, on a chunk of its own or on another.
StatesUsage(r) ==
    /\ Streaming /\ Len(stated) < MaxReports
    /\ stated' = Append(stated, r)
    /\ usage' = Absorbed(r)
    /\ UNCHANGED <<numbered, sent, tools, finished, sawDone, events, end>>

\* Tool calls arrive in order; fragments of parallel calls may alternate.
Begun(c) == c = 1 \/ sent[c - 1] > 0

NumberedChunks ==
    LET next(named) == {<<Fragment(c, sent[c] + 1, named)>> :
                          c \in {d \in Calls : sent[d] < Pieces /\ Begun(d)}}
    IN  next(TRUE) \cup next(FALSE)

\* Calls sent whole, any number of them to a chunk.
WholeChunks ==
    LET after(last) == {[i \in 1..n |-> Fragment(last + i, 1, TRUE)] :
                          n \in 1..(NumCalls - last)}
        sentUpTo(last) == \A c \in Calls : sent[c] > 0 <=> c <= last
    IN  UNION {after(last) : last \in {n \in 0..NumCalls : sentUpTo(n)}}

NextChunks == IF numbered THEN NumberedChunks ELSE WholeChunks

\* A delta with tool calls, which may still come after a finish_reason; its call
\* is named at the latest by its first fragment.  One block more than
\* MAX_OPEN_TOOL_BLOCKS fails the stream.
CallsTools(chunk) ==
    /\ Streaming
    /\ chunk[1].nr = 1 => chunk[1].id # 0
    /\ sent' = [c \in Calls |->
                   IF \E i \in DOMAIN chunk : chunk[i].call = c THEN sent[c] + 1
                   ELSE sent[c]]
    /\ IF Len(Assembled(chunk)) <= MaxOpen
         THEN tools' = Assembled(chunk) /\ UNCHANGED <<events, end>>
         ELSE UNCHANGED tools /\ Fails
    /\ UNCHANGED <<numbered, stated, usage, finished, sawDone>>

\* A finish_reason, in the middle of a call if the answer was clipped there.
Finish ==
    /\ Streaming
    /\ finished' = TRUE
    /\ UNCHANGED <<numbered, stated, sent, usage, tools, sawDone, events, end>>

\* [DONE], after whatever was sent.
Done ==
    /\ Streaming
    /\ sawDone' = TRUE
    /\ Terminate
    /\ UNCHANGED <<numbered, stated, sent, usage, tools, finished>>

\* The socket closes: the end of an answer only if it was said to be finished.
Close ==
    /\ Streaming
    /\ finished => Terminate
    /\ ~finished => Fails
    /\ UNCHANGED <<numbered, stated, sent, usage, tools, finished, sawDone>>

\* The socket breaks, an event is malformed, grows past MAX_SSE_EVENT_BYTES or
\* carries an error, or the arguments grow past MAX_TOOL_ARGUMENT_BYTES.
Break ==
    /\ Streaming
    /\ Fails
    /\ UNCHANGED <<numbered, stated, sent, usage, tools, finished, sawDone>>

Next ==
    \/ \E r \in Reports : StatesUsage(r)
    \/ \E chunk \in NextChunks : CallsTools(chunk)
    \/ Finish \/ Done \/ Close \/ Break

Spec == Init /\ [][Next]_vars

\* A report states a count or nothing.
ChatAssumption ==
    /\ NumCalls \in Nat /\ Pieces \in Nat
    /\ Unstated \notin Nat
    /\ Reports \subseteq [Fields -> Nat \cup {Unstated}]

-----------------------------------------------------------------------------
(* Properties.                                                             *)

Yielded(kind) == SelectSeq(events, LAMBDA e : e.kind = kind)

\* One snapshot stands behind the whole of a bill: what it leaves out was left
\* by a report before it.
StandsBehind(i, u) ==
    \A f \in Fields :
        IF States(stated[i], f) THEN u[f] = stated[i][f]
        ELSE u[f] = Unstated \/ \E j \in 1..(i - 1) : u[f] = stated[j][f]

\* Where the client yielded a usage.
Bills == {i \in DOMAIN events : events[i].kind = "usage"}

\* A report that counts cached tokens counts the prompt they are part of.
Coherent(r) == States(r, "cached") => States(r, "prompt")

\* However a stream ends, what the upstream reported of its cost is yielded
\* once, and never a sum that mixes a figure with one it corrected; a stream
\* whose reports are all sound is not settled without one
\* (partial_usage, absorb_usage).
UsageKept ==
    LET billable == \E i \in DOMAIN stated : Billable(stated[i])
        sound == \A i \in DOMAIN stated : Plausible(stated[i]) /\ Coherent(stated[i])
    IN  /\ \A i, j \in Bills : i = j
        /\ end # "open" /\ billable /\ sound => Bills # {}
        /\ \A i \in Bills : \E k \in DOMAIN stated : StandsBehind(k, events[i].usage)

\* An answer ends well only if the upstream said so, with every call it began, in
\* its order, each with all the upstream sent of it and nothing of another: a call
\* that is short was clipped by the upstream.  A stream that breaks off never hands
\* over a call (absorb_tool_fragments, terminate, the loop of stream_chat).
AnswerWhole ==
    /\ end # "final" => Yielded("call") = <<>>
    /\ end = "final" =>
        /\ finished \/ sawDone
        /\ LET begun == SelectSeq([c \in Calls |-> c], LAMBDA c : sent[c] > 0) IN
           [i \in DOMAIN Yielded("call") |-> Yielded("call")[i].pieces]
             = [i \in DOMAIN begun |-> [nr \in 1..sent[begun[i]] |-> <<begun[i], nr>>]]
=============================================================================
