----------------------------- MODULE MCAgentLink -----------------------------
(* Small instances of AgentLink: doctor bots and a monitoring client that    *)
(* compete for one agent.                                                    *)
EXTENDS AgentLink

CONSTANTS b1, m1

=============================================================================
