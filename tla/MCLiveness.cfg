CONSTANTS
    r1 = r1
    ws = ws
    shell = shell
    Api = Api
    ActionId = {a1}
    RunId = {r1}
    Dispatcher = {w1, w2}
    Continuation = {}
    Tool = {shell}
    RunOf <- MCRunOf
    ToolOf <- MCToolOf
    Capabilities <- MCCapabilities
    LeaseSeconds = 1
    MaxAttempts = 1
    MaxTime = 0
    NoWorker = NoWorker
    NoLease = NoLease
    Workspace = {ws}
    WorkspaceOf <- MCWorkspaceOf
    NoRun = NoRun
    NoAction = NoAction
    AwaitingTools = {}
    MaxTurns = 1
    Disturbed = {w1}
    ApiMayCrash = FALSE
SPECIFICATION FairSpec
CHECK_DEADLOCK FALSE
PROPERTIES
    ExecutingSettles
    ApprovedIsTaken
