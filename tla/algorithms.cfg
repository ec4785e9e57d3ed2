\* Every acyclic graph of four tasks, up to two roots; what up to two
\* generators and an author can have left in a directory; every workspace of
\* three directories, one or two of which are asked for.
CONSTANTS
    Tasks = {1, 2, 3, 4}
    Durations = {0, 1, 2}
    MaxRoots = 2
    Generated <- GeneratedFiles
    Written <- WrittenFiles
    MaxGenerators = 2
    Dirs = {1, 2, 3}
    MaxRequested = 2
SPECIFICATION Spec
INVARIANTS
    RunnersGetTheGraph
    CriticalPathIsSlowest
    HandWrittenWins
    NothingIsLost
    NothingMissed
