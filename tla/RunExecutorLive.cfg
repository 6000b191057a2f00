SPECIFICATION FairSpec
CONSTANTS
    Runs = {1, 2}
    Claims = {"a"}
    GlobalClaims = {}
    ClaimsOf <- SharedClaim
    PlanSteps = {1, 2}
    PlanOf <- TwoStepsAndOne
    Cleanups = {}
    ArmedBy <- NoCleanup
    Mutating = {}
    Streamed = {}
    RequiresSecrets = {2}
    OnlyIfFree = {}
    ApproveChecked = {}
    AbortChecked = {}
    NamedRetry = TRUE
    LateDiscard = FALSE
    MayChange = {}
    MaxExecs = 2
    MaxWaiting = 1
    MaxRestarts = 1
    MaxFaults = 0
PROPERTIES
    QueuedRunLeaves
CHECK_DEADLOCK FALSE
