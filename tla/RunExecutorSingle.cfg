SPECIFICATION FairSpec
CONSTANTS
    Runs = {1}
    Claims = {"a"}
    GlobalClaims = {}
    ClaimsOf <- OneClaim
    PlanSteps = {1, 2, 3}
    PlanOf <- ThreeSteps
    Cleanups = {12, 13}
    ArmedBy <- OneCleanupEach
    Mutating = {1}
    Streamed = {1}
    RequiresSecrets = {1}
    OnlyIfFree = {}
    ApproveChecked = {}
    AbortChecked = {}
    NamedRetry = FALSE
    LateDiscard = FALSE
    MayChange = {1}
    MaxExecs = 2
    MaxWaiting = 1
    MaxRestarts = 2
    MaxFaults = 2
INVARIANTS
    TypeOK
    OneExecution
    PreconditionAnswered
    CleanupLeavesNothing
PROPERTIES
    CleanupOrder
    NextBootTakesIt
    StartedRunEnds
CHECK_DEADLOCK FALSE
