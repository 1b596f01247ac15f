SPECIFICATION Spec
CONSTANTS
    Destinations = {d1}
    PostPairs <- AwkwardPairs
    GetPairs <- AwkwardQuery
    RawBodies <- OneRawBody
    Boundary <- ShortBoundary
    MaxPairs = 2
    MaxTries = 2
INVARIANTS
    TypeOK
    SendsTheSame
    FormReadable
    ToldOnce
