CONSTANTS
    d1 = d1
    d2 = d2
    j1 = j1
    j2 = j2
    Drivers <- TwoDrivers
    Jobs <- JobsOfOne
    Nobody = Nobody
    Theirs = Theirs
SPECIFICATION FairSpec
CHECK_DEADLOCK FALSE
INVARIANT
    CleanExit
PROPERTY
    Terminates
