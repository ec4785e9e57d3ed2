\* A daemon or a task started and stopped twice, under the fairness of
\* the Go scheduler.
CONSTANTS
    Starts = {s1, s2}
    Stops = {x1, x2}
    VerifyCmds = {}
    HttpHealthChecks = {h1}
    ServiceTypes = {"DAEMON", "TASK"}
    Followed = {"starter"}
    None = None
SPECIFICATION FairSpec
PROPERTIES
    WatchedStopReturns
    DeathNoticed
    NoForgottenStarter
