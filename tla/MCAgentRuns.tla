---------------------------- MODULE MCAgentRuns ----------------------------
EXTENDS AgentRuns, TLC
=============================================================================
