SPECIFICATION Spec
CONSTANTS
    Clients = {c1}
    MaxLines = 5
    MaxEphemeral = 1
    MaxLate = 1
    MaxDrops = 1
    MaxRestarts = 1
INVARIANTS LogInv
PROPERTIES EndIsComplete EveryLineArrives
CHECK_DEADLOCK FALSE
