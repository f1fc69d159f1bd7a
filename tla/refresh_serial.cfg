SPECIFICATION ClientSpec
CONSTANTS
    Req = {r1, r2, r3, r4}
    MaxActive = 1
    MaxCalls = 2
    Tabs = {t1, t2}
SYMMETRY TabSymmetry
INVARIANT ClientTypeOK ReuseExplained JarCurrent FamilyStaysEnded
PROPERTY ImplementsSessions
CHECK_DEADLOCK FALSE
