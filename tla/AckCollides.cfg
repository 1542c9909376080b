SPECIFICATION Spec
CONSTANTS
    chunk = chunk
    jserr = jserr
    NoProject = NoProject
    Project = {h5, NoProject}
    Class = {chunk, jserr}
    Unknown = unknown
    WhiteScreen = {chunk}
    MaxBatch = 2
    MaxPosted = 1
    MaxRows = 1
    Rules <- RulesInOrder
    Urgent = {chunk}
    Threshold <- NoTolerance
    Job = {j1}
    MaxFailures = 1
INVARIANT AckClosesPending
