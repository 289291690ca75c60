\* One worker, no process dies: errors, exhausted retries, redelivery, slow polls,
\* partial results, and an operator who retries failed items.
CONSTANTS
    j1 = j1  r1 = r1  b1 = b1  b2 = b2  w1 = w1  w2 = w2  h1 = h1
    NoJob = NoJob  NoBatch = NoBatch
    Provider <- OneOpenAI
    UserJobs = {j1}
    RetryJobs = {r1}
    Retried = {j1}
    Batches = {b1, b2}
    Workers = {w1}
    Handlers = {h1}
    MaxRetries = 0
    MaxCopies = 1
    Faults = {"timeout", "rejected", "redeliver", "slow_poll", "partial"}
    MaxFaults = 2
SPECIFICATION Spec
INVARIANTS AtMostOneBatch TimelineComplete
CHECK_DEADLOCK FALSE
