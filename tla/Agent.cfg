SPECIFICATION FairSpec
CONSTANTS
    Conns = {k1, k2, k3, k4}
    MaxFaults = 3
    MaxVersion = 2
    MaxLoops = 2
    Deployments <- All
INVARIANTS PrivacyFirst ReportersFollow
PROPERTIES Reconnects UpdatesReachServer
