SPECIFICATION FairSpec
CONSTANTS
    Requests = {r1, r2, r3}
    PriorityMultiplier = 2
    Callers = {main, app}
    IoThreads = {io1}
    Destroyers = {main}
    MaxInFlight = 2
    MaxRetries = 1
    Priorities = {1}
    Resubmitters = {r1}
    Curious = {}
    HostOf <- OneHost
    Known = {r1}
    Faked = {r2}
    Retrying = {r1, r3}
    Mortal = {}
    Silent = {r3}
    NoRequest = NoRequest
    NoThread = NoThread
PROPERTIES
    EveryRequestFinished
    DestructorReturns
