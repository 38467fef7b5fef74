CONSTANTS
    a1 = a1
    a2 = a2
    r1 = r1
    w1 = w1
    c1 = c1
    Api = Api
    shell = shell
    browser = browser
    ActionId = {a1, a2}
    RunId = {r1}
    Dispatcher = {w1}
    Continuation = {c1}
    Tool = {shell, browser}
    RunOf <- MCRunOf
    ToolOf <- MCToolOf
    Capabilities <- MCCapabilities
    LeaseSeconds = 1
    MaxAttempts = 1
    MaxTime = 2
    NoWorker = NoWorker
    NoLease = NoLease
SPECIFICATION LedgerSpec
CHECK_DEADLOCK FALSE
INVARIANTS
    LedgerTypeOK
    EvidenceMatchesStatus
    LeaseWithinHorizon
PROPERTIES
    OwnerNeverChanges
    ImplementsLifecycle
