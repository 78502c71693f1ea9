------------------------------- MODULE Copilot ------------------------------
(***************************************************************************)
(* The access-review copilot (go/internal/copilot): what becomes of an     *)
(* answer of the language model.  A call returns a set, empty for an       *)
(* error.  Wording is left out; a recommendation keeps what it proposes    *)
(* and whether it says that a human must approve.                          *)
(***************************************************************************)
EXTENDS Sequences, Naturals

CONSTANT Identity    \* the names a recommendation may concern

Action == {"revoke", "review", "lock", "keep"}

Recommendation == [identity : Identity, action : Action, approval : BOOLEAN]

\* A block of the answer.  The input of a tool call decodes as a review or it
\* does not; the model may leave the period empty.
Block == [type : {"text"}]
    \cup [type : {"tool_use"}, tool : {"record_access_review", "other"},
          decodes : BOOLEAN, period : {"", "2026-Q2"},
          recommendations : SUBSET Recommendation]

\* What the HTTP call came back with, if it did: "unreachable" is a transport
\* error or an expired deadline.
Answer == [status : {"unreachable", "error", "ok"},
           body   : {"garbled", "error", "message"},
           stop   : {"end_turn", "tool_use", "max_tokens", "refusal"},
           blocks : Seq(Block)]

Arrived(a) == a.status = "ok" /\ a.body = "message"

-----------------------------------------------------------------------------
IsCall(block) == block.type = "tool_use" /\ block.tool = "record_access_review"

\* Client.complete: the first call of the tool that was forced.
Complete(a) ==
    {a.blocks[n] : n \in {m \in DOMAIN a.blocks :
        /\ Arrived(a)
        /\ a.stop \notin {"refusal", "max_tokens"}
        /\ IsCall(a.blocks[m])
        /\ \A k \in 1..(m - 1) : ~IsCall(a.blocks[k])}}

\* Mutant of Generate: the model is taken at its word.
GenerateTrusting(a, period) ==
    {[period |-> IF input.period = "" THEN period ELSE input.period,
      recommendations |-> input.recommendations] :
        input \in {call \in Complete(a) : call.decodes}}

Generate(a, period) ==
    {[period |-> IF input.period = "" THEN period ELSE input.period,
      recommendations |-> {[r EXCEPT !.approval = TRUE] :
                               r \in input.recommendations}] :
        input \in {call \in Complete(a) : call.decodes}}

\* Client.Chat, and with it Ask: the text blocks, put together, whatever made
\* the model stop but a refusal.
Chat(a) ==
    IF Arrived(a) /\ a.stop # "refusal"
    THEN {SelectSeq(a.blocks, LAMBDA b : b.type = "text")} ELSE {}

=============================================================================
