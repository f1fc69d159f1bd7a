SPECIFICATION Spec
CONSTANTS
    Req = {r1, r2, r3, r4}
    MaxActive = 3
SYMMETRY ReqSymmetry
INVARIANT FamilyStaysEnded
CHECK_DEADLOCK FALSE
