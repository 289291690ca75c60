\* Two requests or polls in flight; two users and two changes of the overrides; two mails,
\* one per poll.
CONSTANTS
    r1 = r1  r2 = r2  u1 = u1  u2 = u2
    Users = {u1, u2}
    Requests = {r1, r2}
    TTL = 2
    MaxAdmin = 2
    MaxPref = 1
    MaxFaults = 1
    NoUser = NoUser
    Polls = {r1, r2}
    Limit = 1
    Threshold = 2
    MaxMail = 2
    MaxPollFaults = 1
SPECIFICATION RedisSpec
SYMMETRY Interchangeable
INVARIANTS FreshUnlessExcused OverridesWithinTwoTTLs PreferencesWithinTTL
           HandledOnce BreakerHolds HealthyIsClosed PollCatchesUp
