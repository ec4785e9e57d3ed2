\* Five tasks and four workers; a task may return an error.
CONSTANTS
    top = top
    left = left
    right = right
    bottom = bottom
    other = other
    Tasks <- MCTasks
    Deps <- MCDeps
    Rank <- MCRank
    Workers = {w1, w2, w3, w4}
    None = None
SPECIFICATION FairSpec
INVARIANTS
    TypeOK
    OnePlace
    DepsFirst
    SleepersAreWoken
PROPERTIES
    ImplementsOrder
    Termination
