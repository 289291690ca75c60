\* Two workers, two tasks, and a fault of each kind.
CONSTANTS
    w1 = w1  w2 = w2
    N = 3
    Workers = {w1, w2}
    MaxSends = 2
    MaxRetries = 1
    Faults = {"transient", "permanent", "crash", "abort"}
    MaxFaults = 1
SPECIFICATION FairSpec
INVARIANTS CountsFollowItems AnnouncedIsStored
PROPERTIES ImplementsPromise ResultsAreStored
CHECK_DEADLOCK FALSE
