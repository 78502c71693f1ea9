---------------------------- MODULE MCAgentEngine ---------------------------
(***************************************************************************)
(* Agents under the repository's default scope table: a join, a move to    *)
(* another scope and a leave of kyra, a join of a second agent, and an     *)
(* event whose subject is not an agent.                                    *)
(***************************************************************************)
EXTENDS AgentEngine, DefaultPolicy, Sequences

MCBotUser == [a \in Agent |-> "bot-" \o a]

Ev(type, kind, name, scope, status) ==
    [type |-> type,
     subject |-> [kind |-> kind, name |-> name, scope |-> scope,
                  status |-> status]]

MCFeedKyra ==
    { Ev("joiner", "agent", "kyra", {"kyra-memory"}, "active"),
      Ev("mover", "agent", "kyra", {"kyra-calendar"}, "active"),
      Ev("leaver", "agent", "kyra", {"kyra-memory"}, "terminated") }

MCFeed ==
    MCFeedKyra \cup
    { Ev("joiner", "agent", "mcp", {"mcp-gateway"}, "active"),
      Ev("joiner", "human", "mcp", {"mcp-gateway"}, "active") }

=============================================================================
