SPECIFICATION Spec
CONSTANTS
    Items = {1, 2, 3}
    InitialPool = {1, 2}
    HasProblem = {1, 3}
    NewSlots = 1
    Cap = 2
    Extra = 1
    Samples = 1
    Seconds = {1}
    Intervals = {1, 2}
    WeekDays = 2
    MaxDay = 4
    MaxSent = 2
INVARIANT TypeOK PlannedOnce StreakIsRun WeekIsSum ScreenInStep
PROPERTY StuckTakeSlots
CHECK_DEADLOCK FALSE
