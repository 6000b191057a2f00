SPECIFICATION Spec
CONSTANTS
    Runs = {1, 2}
    Claims = {"a", "g"}
    GlobalClaims = {"g"}
    ClaimsOf <- OwnAndGlobal
    PlanSteps = {1, 2}
    PlanOf <- OneStep
    Cleanups = {12}
    ArmedBy <- CleanupOfFirst
    Mutating = {}
    Streamed = {1}
    RequiresSecrets = {2}
    OnlyIfFree = {}
    ApproveChecked = {2}
    AbortChecked = {1}
    NamedRetry = FALSE
    LateDiscard = FALSE
    MayChange = {}
    MaxExecs = 1
    MaxWaiting = 2
    MaxRestarts = 1
    MaxFaults = 0
INVARIANTS
    LocksExclusive
    NoStartableRunLeftQueued
PROPERTIES
    ImplementsLeases
CHECK_DEADLOCK FALSE
