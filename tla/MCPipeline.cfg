CONSTANTS
    read = read
    write = write
    delete = delete
    shell = shell
    misused = misused
    unknown = unknown
    garbled = garbled
    Call <- MCCall
    Readable <- MCReadable
    Registered <- MCRegistered
    WellFormed <- MCWellFormed
    ShellCall = {shell}
    Risk <- MCRisk
    MaxToolCalls = 2
    MaxRuntimeSeconds = 1
    MaxShellExecutions = 1
    MaxTurns = 2
    RepeatThreshold = 2
    NoCall = NoCall
    MaxAnswer = 2
    MaxSessions = 2
SPECIFICATION FairPipelineSpec
CHECK_DEADLOCK FALSE
INVARIANTS
    PipelineTypeOK
    SessionWithinBudget
    NoRepeatInSession
    RiskyOnlyAsGranted
    ConsentIsNotWasted
    CancellationEndsRun
    SuccessMeansVerified
    RetryIsSafe
PROPERTIES
    SessionEnds
