\* Two clients and three service objects.  All calls may wait for ever
\* behind a lock that was not given back.
CONSTANTS
    a = a
    b = b
    Names <- MCNames
    Objects = {1, 2, 3}
    Clients = {c1, c2}
    Batches <- MCBatches
    NameSets <- MCNameSets
    None = None
SPECIFICATION Spec
SYMMETRY MCSymmetry
INVARIANTS
    TypeOK
    RunnersGetSoundGraphs
PROPERTIES
    BatchTruth
    RunnersKeepOrder
    StopAllStops
    UsersStoppedFirst
CHECK_DEADLOCK FALSE
