CONSTANTS
    Runs = {r1, r2}
    Fallbacks = 1
    MaxSteps = 2
    ServerSteps = 1
    Analysis = 4
    MaxFaults = 1
    None = None
SPECIFICATION Spec
INVARIANTS
    AnswersAreLogged
    RunsAreIsolated
    CancelIsPrompt
PROPERTY RunsEnd
CHECK_DEADLOCK FALSE
