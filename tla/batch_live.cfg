\* One worker that may crash: everything that must eventually happen.
CONSTANTS
    j1 = j1  r1 = r1  b1 = b1  b2 = b2  w1 = w1  w2 = w2  h1 = h1
    NoJob = NoJob  NoBatch = NoBatch
    Provider <- OneClaude
    UserJobs = {j1}
    RetryJobs = {}
    Retried = {}
    Batches = {b1, b2}
    Workers = {w1}
    Handlers = {h1}
    MaxRetries = 1
    MaxCopies = 1
    Faults = {"timeout", "crash", "redeliver"}
    MaxFaults = 1
SPECIFICATION FairSpec
PROPERTIES JobIsSubmitted JobSettles ResultsArrive
CHECK_DEADLOCK FALSE
