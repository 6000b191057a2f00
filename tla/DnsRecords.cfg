SPECIFICATION Spec
CONSTANTS
    Runs = {r1, r2}
    Starts <- Beginnings
    MaxHands = 1
    MaxPlans = 3
    MaxFails = 2
SYMMETRY Symmetry
INVARIANTS DnsInv
PROPERTIES WrittenStands WayBackRestores
CHECK_DEADLOCK FALSE
