CONSTANTS
    r1 = r1
    ws = ws
    shell = shell
    Api = Api
    ActionId = {a1}
    RunId = {r1}
    Dispatcher = {w1}
    Continuation = {c1}
    Tool = {shell}
    RunOf <- MCRunOf
    ToolOf <- MCToolOf
    Capabilities <- MCCapabilities
    LeaseSeconds = 1
    MaxAttempts = 1
    MaxTime = 0
    NoWorker = NoWorker
    NoLease = NoLease
    Workspace = {ws}
    WorkspaceOf <- MCWorkspaceOf
    NoRun = NoRun
    NoAction = NoAction
    AwaitingTools = {}
    MaxTurns = 1
    Disturbed = {}
    ApiMayCrash = FALSE
SPECIFICATION RuntimeSpec
CHECK_DEADLOCK FALSE
PROPERTIES
    CancelledNeverRuns
