---------------------------- MODULE MCAgentTurn ----------------------------
(* A defuser in a pair, with room for two or three of its longest turns.    *)
EXTENDS AgentTurn

MCResponseTokens == {1, 6}
=============================================================================
