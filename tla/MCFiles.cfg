CONSTANTS
    r1 = r1
    r2 = r2
    RunId = {r1, r2}
    File = {f}
    Content = {x, y}
    Missing = Missing
    Torn = Torn
    NoFile = NoFile
    MaxCalls <- MCMaxCalls
SPECIFICATION FilesSpec
CHECK_DEADLOCK FALSE
INVARIANTS
    FilesTypeOK
    OldOrNew
    FailureRestores
    BeforeImageKept
    SuccessIsReversible
SYMMETRY MCSymmetry
