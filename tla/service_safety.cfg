\* A daemon or a task: two Start calls and two stop calls, concurrent.
CONSTANTS
    Starts = {s1, s2}
    Stops = {x1, x2}
    VerifyCmds = {c1}
    HttpHealthChecks = {h1}
    ServiceTypes = {"DAEMON", "TASK"}
    Followed = {"logger", "recorder"}
    None = None
SPECIFICATION Spec
SYMMETRY CallSymmetry
INVARIANTS
    TypeOK
    OneProcess
    WaitChClosedOnExit
    RunsKeepApart
    ReportsCollected
    LogOpenWhileRunning
    FirstRunHonest
    VersionOfHealthyRun
PROPERTIES
    LifeCycle
