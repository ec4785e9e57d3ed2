\* A stop call that takes the lock before waitTillHealthyAndMark does.
CONSTANTS
    Starts = {s1}
    Stops = {x1}
    VerifyCmds = {c1}
    HttpHealthChecks = {}
    ServiceTypes = {"DAEMON"}
    Followed = {}
    None = None
SPECIFICATION FairSpec
PROPERTIES
    StopReturns
