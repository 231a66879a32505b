SPECIFICATION FairSpec

CONSTANTS
    c1 = c1
    c2 = c2
    c3 = c3
    strict = strict
    lax = lax
    single = single
    series = series
    parallel = parallel
    Clients = {c1, c2, c3}
    Runs = {strict, lax, single, series, parallel}
    Targets <- OfRun
    Kind <- KindOf
    Concurrent = {parallel}
    AbortOnErr = {strict, series}
    Paused = {c3}
    Deployments <- All

INVARIANTS InSeries ResultsStored SocketCountsFinals
PROPERTIES RunsEnd

\* A server nobody sends requests to is quiet.
CHECK_DEADLOCK FALSE
