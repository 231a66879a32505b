CONSTANTS
  c1 = c1
  c2 = c2
  c3 = c3
  p1 = p1
  p2 = p2
  NoPort = NoPort
  Callers <- ThreeCallers
  AllowedPorts <- TwoPorts
  Deployments <- AllDeployments
SPECIFICATION Spec
SYMMETRY Symmetry
INVARIANTS ExclusiveHandOut ReservedOutOfPool
PROPERTIES ImplementsLease
