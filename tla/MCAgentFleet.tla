---------------------------- MODULE MCAgentFleet ----------------------------
(* Small instances of AgentFleet for TLC.                                   *)
EXTENDS AgentFleet

CONSTANTS a1, w1, w2, u1, u2

\* Runs that change the agent's row in different ways.
Changes == {"actions"}
MainOutcomes == {"no_model", "failed", "actions"}

\* Runs of an agent that has a model to write with.
WithModel == AllOutcomes \ {"no_model"}

=============================================================================
