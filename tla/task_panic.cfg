\* Two waiters of a task and one channel.
CONSTANTS
    Starts = {s1, s2}
    Stops = {x1}
    VerifyCmds = {c1}
    HttpHealthChecks = {}
    ServiceTypes = {"TASK"}
    Followed = {}
    None = None
SPECIFICATION Spec
INVARIANTS
    NoDoubleClose
