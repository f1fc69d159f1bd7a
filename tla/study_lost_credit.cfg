SPECIFICATION Spec
CONSTANTS
    Req = {r1, r2, r3, r4}
    Created <- MCCreated
    Items = {1, 2, 3}
    InitialPool = {1, 2}
    HasProblem = {1, 2, 3}
    Studied = {1}
    FirstDay = FALSE
    Kinds = {"build", "attempt", "extend"}
    MaxActive = 3
    NewSlots = 2
    Extra = 1
SYMMETRY ReqSymmetry
INVARIANT EveryAttemptEarns
CHECK_DEADLOCK FALSE
