SPECIFICATION Spec
CONSTANTS
    a1 = a1
    a2 = a2
    b1 = b1
    b2 = b2
    b3 = b3
    c1 = c1
    Req = {r1, r2, r3, r4}
    MaxActive = 2
    TopLevel = 3
    GrammarLevels = {2}
    Problems = {a1, a2, b1, b2, b3, c1}
    Stock <- MCStock
    ExamPlan <- MCExamPlan
    MinStudied = 1
    TokenLife = 1
    Cooldown = 2
SYMMETRY ReqSymmetry
INVARIANT TypeOK LadderClimbed PromotionStudied
PROPERTY LevelMeant RetakeOnlyByOtherToken PlacementScale
CHECK_DEADLOCK FALSE
