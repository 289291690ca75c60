\* Two workers, no fault: do the results of a completed job arrive?
CONSTANTS
    j1 = j1  r1 = r1  b1 = b1  b2 = b2  w1 = w1  w2 = w2  h1 = h1
    NoJob = NoJob  NoBatch = NoBatch
    Provider <- OneClaude
    UserJobs = {j1}
    RetryJobs = {}
    Retried = {}
    Batches = {b1, b2}
    Workers = {w1, w2}
    Handlers = {h1}
    MaxRetries = 0
    MaxCopies = 1
    Faults = {}
    MaxFaults = 0
SPECIFICATION FairSpec
PROPERTY ResultsArrive
CHECK_DEADLOCK FALSE
