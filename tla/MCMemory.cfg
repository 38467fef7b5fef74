CONSTANTS
    r1 = r1
    w1 = w1
    v1 = v1
    v2 = v2
    RunId = {r1, w1}
    k1 = k1
    k2 = k2
    Key = {k1, k2}
    Value = {v1, v2}
    Ttl = {1}
    Never = 9
    TopK = 1
    Earlier <- MCEarlier
    MaxTime = 2
    MaxCalls <- MCMaxCalls
    Reader = r1
    Budget = 150
    RecentResults = 2
    RecentMessages = 1
    Base = {30, 102, 200}
    Result <- MCResult
    Length = {20, 60}
    Text <- MCText
    LengthOf <- MCLengthOf
    MaxItems = 2
SPECIFICATION MCSpec
CHECK_DEADLOCK FALSE
INVARIANTS
    ContextTypeOK
    HitsWereFresh
    BudgetKept
    LostForWantOfRoom
