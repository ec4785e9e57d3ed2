\* One client: a service is removed, then one that depends on it started.
CONSTANTS
    a = a
    b = b
    Names <- MCNames
    Objects = {1, 2}
    Clients = {c1}
    Batches <- MCBatches
    NameSets <- MCNameSets
    None = None
SPECIFICATION Spec
INVARIANTS
    RemovedIsStopped
CHECK_DEADLOCK FALSE
