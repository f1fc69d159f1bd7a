SPECIFICATION FairSpec
CONSTANTS
    Req = {r1, r2, r3}
    Created <- MCCreated
    Items = {1, 2, 3, 4, 5}
    InitialPool = {1, 2, 3, 4}
    HasProblem = {1, 2, 3, 5}
    Studied = {1}
    FirstDay = FALSE
    Kinds = {"build", "attempt", "extend", "place"}
    MaxActive = 3
    NewSlots = 3
    Extra = 1
INVARIANT TypeOK LoggedIsStudied RepsBackedByLog CreditBackedByLog PlannedHasRow CirclesAreTies
PROPERTY SessionKept EveryRequestEnds
CHECK_DEADLOCK FALSE
