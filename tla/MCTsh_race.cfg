SPECIFICATION Spec
CONSTANTS
    p1 = p1
    p2 = p2
    p3 = p3
    Pids <- TwoPids
    MAXJOBS = 2
SYMMETRY PidSymmetry
INVARIANT
    SignalRacesHarmless
