SPECIFICATION FairSpec
CONSTANTS
    ThreadCounts = {1, 2}
    MaxAddresses = 2
    MaxChunks = 2
INVARIANTS
    TypeOK
    NoUnguardedWait
    LateTimerHarmless
    VerdictAtEnd
PROPERTIES
    OnlyDueTimeoutsFail
    FirstReasonKept
    EndsOrTimesOut
    ImplementsTransfer
