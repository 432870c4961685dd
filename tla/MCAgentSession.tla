---------------------------- MODULE MCAgentSession ----------------------------
EXTENDS AgentSession

CONSTANTS s1, s2, read, list, run

MCBudget == [starts |-> 2, queries |-> 3, replies |-> 2, aborts |-> 1, switches |-> 1]
=============================================================================
