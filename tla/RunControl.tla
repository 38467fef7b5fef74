---------------------------- MODULE RunControl ----------------------------
(***************************************************************************)
(* The run tables of RunRepository: agent_runs, run_controls and           *)
(* session_locks, and the state machine RunLifecycleService consults.      *)
(* Every operation below is one transaction; the lifecycle service calls   *)
(* several in a row and nothing holds them together (AgentRuntime).        *)
(***************************************************************************)
EXTENDS Identities

CONSTANTS
    Workspace,     \* workspace_id values
    WorkspaceOf,   \* [RunId -> Workspace]
    NoRun, NoAction

ASSUME RunConstants ==
    /\ WorkspaceOf \in [RunId -> Workspace]
    /\ NoRun \notin RunId
    /\ NoAction \notin ActionId

VARIABLES
    runs,            \* [RunId -> AgentState \cup {"ABSENT"}]: agent_runs.state
    cancelRequested, \* [RunId -> BOOLEAN]: run_controls.cancel_requested
    pendingAuth,     \* [RunId -> ActionId \cup {NoAction}]: the action_id in
                     \* run_controls.pending_authorization_json
    locks            \* [Workspace -> RunId \cup {NoRun}]: session_locks

runVars == <<runs, cancelRequested, pendingAuth, locks>>

--------------------------------------------------------------------------
Terminal == {"COMPLETE", "PARTIAL", "FAILED", "CANCELLED"}

AgentState == {"UNDERSTAND", "VALIDATE", "PLAN", "EXECUTE", "OBSERVE", "VERIFY", "RECOVER",
               "INPUT_REQUIRED", "AUTHORIZATION_REQUIRED"} \cup Terminal

ValidTransitions ==
    [s \in AgentState |->
        CASE s = "UNDERSTAND"     -> {"VALIDATE", "FAILED", "CANCELLED"}
          [] s = "VALIDATE"       -> {"PLAN", "INPUT_REQUIRED", "FAILED", "CANCELLED"}
          [] s = "PLAN"           -> {"EXECUTE", "FAILED", "CANCELLED"}
          [] s = "EXECUTE"        -> {"OBSERVE", "AUTHORIZATION_REQUIRED", "RECOVER",
                                      "FAILED", "CANCELLED"}
          [] s = "OBSERVE"        -> {"EXECUTE", "VERIFY", "RECOVER", "INPUT_REQUIRED",
                                      "FAILED", "CANCELLED"}
          [] s = "VERIFY"         -> {"EXECUTE", "COMPLETE", "PARTIAL", "RECOVER", "FAILED"}
          [] s = "RECOVER"        -> {"EXECUTE", "INPUT_REQUIRED", "PARTIAL", "FAILED",
                                      "CANCELLED"}
          [] s = "INPUT_REQUIRED" -> {"VALIDATE", "CANCELLED", "FAILED"}
          [] s = "AUTHORIZATION_REQUIRED" -> {"EXECUTE", "CANCELLED", "FAILED"}
          [] s \in Terminal       -> {}]

RunTypeOK ==
    /\ runs \in [RunId -> AgentState \cup {"ABSENT"}]
    /\ cancelRequested \in [RunId -> BOOLEAN]
    /\ pendingAuth \in [RunId -> ActionId \cup {NoAction}]
    /\ locks \in [Workspace -> RunId \cup {NoRun}]

RunInit ==
    /\ runs = [r \in RunId |-> "ABSENT"]
    /\ cancelRequested = [r \in RunId |-> FALSE]
    /\ pendingAuth = [r \in RunId |-> NoAction]
    /\ locks = [k \in Workspace |-> NoRun]

--------------------------------------------------------------------------
CreateRun(r) ==
    /\ runs[r] = "ABSENT"
    /\ runs' = [runs EXCEPT ![r] = "UNDERSTAND"]
    /\ UNCHANGED <<cancelRequested, pendingAuth, locks>>

\* UPDATE agent_runs SET state = ? WHERE id = ?: whatever the row says now.
UpdateRun(r, state) ==
    /\ runs' = [runs EXCEPT ![r] = state]
    /\ UNCHANGED <<cancelRequested, pendingAuth, locks>>

\* The primary key of session_locks admits one row per workspace.
WorkspaceFree(r) == locks[WorkspaceOf[r]] = NoRun

AcquireSessionLock(r) ==
    /\ WorkspaceFree(r)
    /\ locks' = [locks EXCEPT ![WorkspaceOf[r]] = r]
    /\ UNCHANGED <<runs, cancelRequested, pendingAuth>>

\* Faulty variant: the DELETE names the workspace only.
ReleaseWorkspace(r) ==
    /\ locks' = [locks EXCEPT ![WorkspaceOf[r]] = NoRun]
    /\ UNCHANGED <<runs, cancelRequested, pendingAuth>>

ReleaseSessionLock(r) ==
    /\ locks' = [k \in Workspace |->
                   IF k = WorkspaceOf[r] /\ locks[k] = r THEN NoRun ELSE locks[k]]
    /\ UNCHANGED <<runs, cancelRequested, pendingAuth>>

RequestCancellation(r) ==
    /\ cancelRequested' = [cancelRequested EXCEPT ![r] = TRUE]
    /\ UNCHANGED <<runs, pendingAuth, locks>>

SetPendingAuthorization(r, a) ==
    /\ pendingAuth' = [pendingAuth EXCEPT ![r] = a]
    /\ UNCHANGED <<runs, cancelRequested, locks>>

\* Faulty variant: an answered request stays open.
KeepAuthorization(r) == UNCHANGED runVars

ResolveAuthorization(r) == SetPendingAuthorization(r, NoAction)

==========================================================================
