SPECIFICATION Spec
CONSTANTS
    Items = {1, 2, 3}
    InitialPool = {1, 2}
    HasProblem = {1, 2, 3}
    NewSlots = 2
    Cap = 2
    Extra = 1
    Samples = 1
    Seconds = {1}
    Intervals = {1, 2}
    WeekDays = 2
    MaxDay = 3
    MaxSent = 3
PROPERTY SkippedWereCompleted
CHECK_DEADLOCK FALSE
