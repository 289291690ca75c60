\* One run with one fallback, no fault: does a call begin after a user asked to cancel?
CONSTANTS
    Runs = {r1}
    Fallbacks = 1
    MaxSteps = 2
    ServerSteps = 1
    Analysis = 4
    MaxFaults = 0
    None = None
SPECIFICATION Spec
INVARIANT NoCallAfterCancel
CHECK_DEADLOCK FALSE
