SPECIFICATION FairSpec
CONSTANTS
    Conns = {k1, k2, k3, k4}
    MaxFaults = 4
    MaxVersion = 2
    MaxLoops = 2
    Deployments <- Flapping
PROPERTY SwitchesBack
