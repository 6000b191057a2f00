SPECIFICATION Spec
CONSTANTS
    Units = {"a", "b"}
    MaxJobs = 3
    Content <- TheContent
    Worlds <- TheWorlds
INVARIANTS ValidationInv
PROPERTIES AdmittedIsJudged ValidationEnds
CHECK_DEADLOCK FALSE
