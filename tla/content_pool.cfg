SPECIFICATION Spec
CONSTANTS
    Req = {r1, r2}
    Counts = {2}
    PoolMin = 1
    BatchSize = 1
    LLMMax = 2
    LLMOptions <- MCOptions
    EnrichBatch = 2
    LLMEntries <- MCLLM
    FallbackEntries <- MCFallback
    FileEntries <- MCFiles
    Levels = {1}
    Wanted = 1
    RowLimit = 3
    MaxActive = 2
SYMMETRY ReqSymmetry
INVARIANT TypeOK OptionsWrong ProblemlessAreFallback SeedsOnce AnswerFull WorkerBounded
CHECK_DEADLOCK FALSE
