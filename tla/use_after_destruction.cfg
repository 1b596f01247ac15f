SPECIFICATION Spec
CONSTANTS
    Requests = {r1, r2}
    PriorityMultiplier = 2
    Callers = {main}
    IoThreads = {io1}
    Destroyers = {main}
    MaxInFlight = 1
    MaxRetries = 0
    Priorities = {1}
    Resubmitters = {}
    Curious = {}
    HostOf <- OneHost
    Known = {r1, r2}
    Faked = {}
    Retrying = {}
    Mortal = {}
    Silent = {}
    NoRequest = NoRequest
    NoThread = NoThread
INVARIANTS
    NoUseAfterDestruction
