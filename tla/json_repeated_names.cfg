SPECIFICATION Spec
CONSTANTS
    Destinations = {d1}
    PostPairs <- TextPairs
    GetPairs = {}
    RawBodies = {}
    Boundary <- ShortBoundary
    MaxPairs = 2
    MaxTries = 1
INVARIANTS
    JsonKeepsEveryPair
