SPECIFICATION Spec
CONSTANTS
    Requests = {r1, r2, r3}
    PriorityMultiplier = 2
    Callers = {main}
    IoThreads = {io1, io2}
    Destroyers = {main}
    MaxInFlight = 2
    MaxRetries = 1
    Priorities = {1, 3}
    Resubmitters = {r1}
    Curious = {r2}
    HostOf <- CuriousApart
    Known = {r1}
    Faked = {r3}
    Retrying = {r1, r3}
    Mortal = {r3}
    Silent = {}
    NoRequest = NoRequest
    NoThread = NoThread
SYMMETRY ThreadSymmetry
INVARIANTS
    InFlightExact
    SocketHeld
PROPERTIES
    ImplementsScheduler
