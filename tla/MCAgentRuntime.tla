-------------------------- MODULE MCAgentRuntime --------------------------
(* Small instances of AgentRuntime for TLC: one workspace, one tool that    *)
(* every worker advertises, every action requested by the same run.         *)
EXTENDS AgentRuntime, TLC

CONSTANTS ws, shell, r1

MCWorkspaceOf == [r \in RunId |-> ws]
MCRunOf == [a \in ActionId |-> r1]
MCToolOf == [a \in ActionId |-> shell]
MCCapabilities == [w \in Dispatcher |-> {shell}]

\* The actions differ in name only, and no operator chooses among them.
MCSymmetry == Permutations(ActionId)
==========================================================================
