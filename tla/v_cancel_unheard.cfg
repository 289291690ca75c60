\* One worker, no fault: is the provider asked to cancel?
CONSTANTS
    j1 = j1  r1 = r1  b1 = b1  b2 = b2  w1 = w1  w2 = w2  h1 = h1
    NoJob = NoJob  NoBatch = NoBatch
    Provider <- OneGemini
    UserJobs = {j1}
    RetryJobs = {}
    Retried = {}
    Batches = {b1, b2}
    Workers = {w1}
    Handlers = {h1}
    MaxRetries = 0
    MaxCopies = 1
    Faults = {}
    MaxFaults = 0
SPECIFICATION Spec
INVARIANT CancelReachesProvider
CHECK_DEADLOCK FALSE
