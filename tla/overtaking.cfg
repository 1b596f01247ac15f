SPECIFICATION FairSpec
CONSTANTS
    Requests = {r1, r2, r3, r4}
    PriorityMultiplier = 2
    MaxInFlight = 1
INVARIANTS
    TypeOK
    Sorted
    AgeAccounting
    OvertakenBound
    OnlyHigherOvertakes
    Capacity
    WorkConserving
PROPERTIES
    NoStarvation
