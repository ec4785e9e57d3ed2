\* The waiter of an earlier run of a daemon marks the next run.
CONSTANTS
    Starts = {s1, s2}
    Stops = {x1}
    VerifyCmds = {c1}
    HttpHealthChecks = {}
    ServiceTypes = {"DAEMON"}
    Followed = {}
    None = None
SPECIFICATION Spec
INVARIANTS
    StartedOnlyIfVerified
