SPECIFICATION FairSpec

CONSTANTS
    s1 = s1
    s2 = s2
    hourly = hourly
    daily = daily
    h1 = h1
    h2 = h2
    r1 = r1
    r2 = r2
    Ids = {s1, s2}
    Specs = {hourly, daily}
    Handlers = {h1, h2}
    Runs = {r1, r2}
    Deployments <- All

INVARIANTS EntriesMatchRows
PROPERTIES RunningHoldsNext KeepsRunning

\* A server without schedules is quiet.
CHECK_DEADLOCK FALSE
