SPECIFICATION Spec
CONSTANTS
    Runs = {r1, r2}
    dev = dev
    prod = prod
    Stages = {dev, prod}
    Releases = {1, 2}
    Domains = {0, 1, 2}
    Starts <- Beginnings
    MaxPlans = 4
    MaxFails = 2
SYMMETRY Symmetry
INVARIANTS ConsumerInv
PROPERTIES LiveStageCanRelease RemovalsAndChanges
CHECK_DEADLOCK FALSE
