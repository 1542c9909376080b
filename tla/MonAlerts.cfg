SPECIFICATION FairSpec
CONSTANTS
    chunk = chunk
    jserr = jserr
    NoProject = NoProject
    Project = {h5}
    Class = {chunk, jserr}
    Unknown = unknown
    WhiteScreen = {chunk}
    MaxBatch = 2
    MaxPosted = 1
    MaxRows = 1
    Rules <- RulesInOrder
    Urgent = {chunk}
    Threshold <- NoTolerance
    Job = {j1, j2}
    MaxFailures = 1
INVARIANTS OnePendingPerFault UrgentIsPushedOnce
PROPERTIES ImplementsAlertLives LastingFaultIsReported
