\* The launch of a container with two services while one command is given.
CONSTANTS
    db = db
    web = web
    launch = launch
    other = other
    Services <- MCServices
    Deps <- MCDeps
    Clients <- MCClients
    Commands <- MCCommands
    Launch = launch
    MaxBuilds = 2
SPECIFICATION ItestSpec
INVARIANTS
    ItestTypeOK
    RestartIsComplete
    NoSelfInflictedFailure
PROPERTY
    TestMeetsServices
CHECK_DEADLOCK FALSE
