----------------------------- MODULE MCAgentState -----------------------------
(* Small instances of AgentState for TLC. *)
EXTENDS AgentState

\* the root folder and one folder in it
RootAndChild == {<<>>, <<"a">>}
JustRoot == {<<>>}
===============================================================================
