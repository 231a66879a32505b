SPECIFICATION FairSpec

CONSTANTS
    dual = dual
    plain = plain
    auto = auto
    quiet = quiet
    timed = timed
    routed = routed
    w1 = w1
    w2 = w2
    None = None
    Remotes = {dual, plain, auto, quiet, timed, routed}
    Protocols <- OfRemote
    Pinned = {dual, routed}
    Routed = {auto, quiet, timed, routed}
    AutoClose = {auto, timed}
    IdleTimeout = {quiet, timed}
    Workers = {w1, w2}
    MaxTunnels = 4
    MaxConns = 1
    MaxGen = 2
    Deployments <- All

INVARIANTS TunnelsListed TerminateWhole
PROPERTIES TunnelsSurvive RequestsFinish

\* A client without tunnels may stay as it is.
CHECK_DEADLOCK FALSE
