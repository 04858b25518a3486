SPECIFICATION Spec
CONSTANTS
    p1 = p1
    p2 = p2
    p3 = p3
    Pids <- ThreePids
    MAXJOBS = 2
SYMMETRY PidSymmetry
INVARIANTS
    TypeOK
    ChildrenHaveJobs
    JobsAreChildren
    NeverItsOwnFault
    NoForegroundAtPrompt
    NextIsPastAll
    NoReportLost
    StoppedJobsAreKnown
PROPERTIES
    ImplementsJobControl
