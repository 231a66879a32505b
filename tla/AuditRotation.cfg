SPECIFICATION DiskFailsSpec
CONSTANTS
 r1 = r1
 r2 = r2
 c1 = c1
 c2 = c2
 Reqs = {r1, r2}
 Clients = {c1, c2}
 RowNames = {"a", "b"}
 MaxFaults = 1
INVARIANT RotationSurvives
SYMMETRY Symmetry
CHECK_DEADLOCK FALSE
