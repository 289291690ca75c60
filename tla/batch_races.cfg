\* Two workers race on one job with a request handler; any one fault.
CONSTANTS
    j1 = j1  r1 = r1  b1 = b1  b2 = b2  w1 = w1  w2 = w2  h1 = h1
    NoJob = NoJob  NoBatch = NoBatch
    Provider <- OneClaude
    UserJobs = {j1}
    RetryJobs = {}
    Retried = {}
    Batches = {b1, b2}
    Workers = {w1, w2}
    Handlers = {h1}
    MaxRetries = 1
    MaxCopies = 1
    Faults = {"timeout", "rejected", "lost_reply", "abort", "crash", "redeliver", "partial"}
    MaxFaults = 1
SPECIFICATION Spec
SYMMETRY Interchangeable
INVARIANTS PollableHasBatch CompletedIsReal OnePoller
PROPERTIES SettledOverwrittenOnlyByStaleSession
CHECK_DEADLOCK FALSE
