SPECIFICATION Spec
CONSTANTS
    Runs = {r1, r2}
    home = home
    west = west
    Clusters = {home, west}
    Stores = {s1, s2}
    MaxWrites = 2
    KEEP_NEWEST = 1
    KEEP_WEEKS = 1
    PerWeek = 2
    Starts <- Beginnings
    MaxPlans = 2
    MaxFails = 2
SYMMETRY Symmetry
INVARIANTS RelocationInv
PROPERTIES FrozenCopyIsWhole MoveKeepsACopy DeletesWhatNobodyNeeds
CHECK_DEADLOCK FALSE
