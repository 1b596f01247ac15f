SPECIFICATION FairSpec
CONSTANTS
    IoThreads = {io1, io2}
    Owner = owner
    Period = 2
    NoThread = NoThread
    MaxBytes = 2
INVARIANTS
    TypeOK
    CallbackSafe
    TokenSafe
    OneHeartbeat
    WholePeriod
    BytesAccounted
PROPERTIES
    ImplementsPeriodicTimer
    KeepsTicking
    DestructorReturns
