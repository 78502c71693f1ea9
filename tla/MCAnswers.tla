------------------------------ MODULE MCAnswers -----------------------------
(***************************************************************************)
(* Answers of the language model, one of each kind the client tells apart. *)
(***************************************************************************)
\* The model's answers: a review that claims no approval is needed, the same one
\* truncated, refused, with garbled input, without the tool, and none at all.
ToolCall == [type |-> "tool_use", tool |-> "record_access_review", decodes |-> TRUE,
             period |-> "",
             recommendations |->
                 {[identity |-> "dave", action |-> "lock", approval |-> FALSE]}]

LLMAnswer(status, body, stop, blocks) ==
    [status |-> status, body |-> body, stop |-> stop, blocks |-> blocks]

LLMAnswers ==
    { LLMAnswer("ok", "message", "tool_use", <<[type |-> "text"], ToolCall>>),
      LLMAnswer("ok", "message", "max_tokens", <<ToolCall>>),
      LLMAnswer("ok", "message", "refusal", <<[type |-> "text"]>>),
      LLMAnswer("ok", "message", "tool_use",
                <<[ToolCall EXCEPT !.decodes = FALSE]>>),
      LLMAnswer("ok", "message", "end_turn",
                <<[ToolCall EXCEPT !.tool = "other"]>>),
      LLMAnswer("ok", "garbled", "end_turn", <<>>),
      LLMAnswer("ok", "error", "end_turn", <<>>),
      LLMAnswer("error", "message", "tool_use", <<ToolCall>>),
      LLMAnswer("unreachable", "garbled", "end_turn", <<>>) }

=============================================================================
