--------------------------- MODULE MCConversation ---------------------------
(* A system prompt in parts, one of them marked, ahead of a question.       *)
EXTENDS Conversation

Says(role, mark) ==
    [role |-> role, parts |-> <<[type |-> "text", mark |-> mark]>>, calls |-> 0,
     reasoning |-> FALSE, mark |-> FALSE]

SomeShapes ==
    [chat |-> {Says("system", TRUE), Says("user", FALSE)}, responses |-> {}]

NoTools == {<<>>}
=============================================================================
