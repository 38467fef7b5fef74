CONSTANTS
    r1 = r1
    ws = ws
    shell = shell
    Api = Api
    ActionId = {a1}
    RunId = {r1, r2}
    Dispatcher = {}
    Continuation = {c1}
    Tool = {shell}
    RunOf <- MCRunOf
    ToolOf <- MCToolOf
    Capabilities <- MCCapabilities
    LeaseSeconds = 1
    MaxAttempts = 1
    MaxTime = 1
    NoWorker = NoWorker
    NoLease = NoLease
    Workspace = {ws}
    WorkspaceOf <- MCWorkspaceOf
    NoRun = NoRun
    NoAction = NoAction
    AwaitingTools = {shell}
    MaxTurns = 1
    Disturbed = {}
    ApiMayCrash = TRUE
SPECIFICATION RuntimeSpec
CHECK_DEADLOCK FALSE
INVARIANTS
    WorkspaceOwned
