\* Every command line, two services, one of which must be healthy after the test.
CONSTANTS
    s1 = s1
    s2 = s2
    Services = {s1, s2}
    FailOn = {s1}
SPECIFICATION FairSpec
INVARIANTS
    TypeOK
    NothingLeftBehind
    CrashesFailTheTest
    RacesReachTheReport
    VerdictsAgree
PROPERTY
    LauncherMovesOn
