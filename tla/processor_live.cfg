\* The same clients and objects, with fairness, as long as names are not reused.
CONSTANTS
    a = a
    b = b
    Names <- MCNames
    Objects = {1, 2, 3}
    Clients = {c1, c2}
    Batches <- LiveBatches
    NameSets = {{a}}
    None = None
SPECIFICATION FairSpec
CONSTRAINT NoTwins
PROPERTIES
    ManagementReturns
CHECK_DEADLOCK FALSE
