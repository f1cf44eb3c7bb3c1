SPECIFICATION Spec
CONSTANTS
    Acts <- MCActs
    Verdicts <- MCVerdicts
    Moments = 4
    WindowEvents = 4
    PressureAfter = 1
    RecentEvents = 3
    PressureLimit = 1
    BlockedAfter = 3
    CandidateAfter = 1
    IdleAfter = 1
    FloorLimit = 1
    ApplyLimit = 1
    StallLimit = 1
    RepeatLimit = 2
INVARIANTS OncePerStretch CountsAgree FloorsAgree InOneWindow
PROPERTIES PastIsSettled
CHECK_DEADLOCK FALSE
