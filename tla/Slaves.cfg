SPECIFICATION Spec
CONSTANTS
    Runs = {r1, r2}
    Machines = {"hub", "a", "b"}
    hub = "hub"
    Fqdns = {"h.example", "a.example", "b.example"}
    Label <- LabelOf
    Starts <- Beginnings
    MaxPlans = 2
    MaxFails = 3
SYMMETRY Symmetry
INVARIANTS SlavesInv
PROPERTIES AbortedDeployLeavesNothing MachineRunsAgree
CHECK_DEADLOCK FALSE
