SPECIFICATION RoutingSpec
CONSTANTS
    RecentEvents = 5
    PressureLimit = 2
    BlockedAfter = 50
    CandidateAfter = 6
    IdleAfter = 3
    FloorLimit = 2
    ApplyLimit = 3
    StallLimit = 2
    RepeatLimit = 2
    CooldownAfter = 2
    CooldownTurns = 1
    BurstLimit = 3
    StopCost = 300
    StopCalls = 25
    StopLength = 3
    ExploreLimit = 12
    ReplanLimit = 3
    StreakLimit = 1
    r1 = r1  r2 = r2
    Requests = {r1, r2}
    Messages <- MCMessages
    Commands <- MCCommands
    Answers <- MCAnswers
    Outcomes = {"stop", "length"}
    CallCost = 301
    MaxCalls = 2
    MaxPosts = 1
INVARIANTS RoutesAsExpected StatesAsExpected SpendBounded VerdictHeeded StopStays
SYMMETRY EitherRequest
CHECK_DEADLOCK FALSE
