---------------------------- MODULE Identities ----------------------------
(* The keys that the run tables and the dispatch tables share.             *)
CONSTANTS
    ActionId,        \* primary keys of pending_actions
    RunId            \* primary keys of agent_runs
==========================================================================
