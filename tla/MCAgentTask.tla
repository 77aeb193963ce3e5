----------------------------- MODULE MCAgentTask -----------------------------
(* Two lines, of one event and of two.                                      *)
EXTENDS AgentTask
TwoLines == <<1, 2>>
=============================================================================
