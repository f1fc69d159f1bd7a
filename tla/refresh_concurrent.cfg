SPECIFICATION FairSpec
CONSTANTS
    Req = {r1, r2, r3, r4}
    MaxActive = 3
INVARIANT TypeOK LineageRevoked RegisteredOnce
PROPERTY RevokedStays UsedTokenRefused EveryRequestEnds
CHECK_DEADLOCK FALSE
