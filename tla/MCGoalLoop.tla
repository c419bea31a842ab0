----------------------------- MODULE MCGoalLoop -----------------------------
(* Instances of GoalLoop for TLC.                                          *)
EXTENDS GoalLoop, TLC

\* Every call runs in the one process, as under the MCP server.
SharedHost == [c \in Call |-> CHOOSE h \in Host : TRUE]

\* Every call is a process of its own, as from the command line.
OwnHost == [c \in Call |-> c]

Symmetric == Permutations(Call)
============================================================================
