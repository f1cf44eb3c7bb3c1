CONSTANTS
    Rec = {r1, r2}
    Query = {q1}
    Event = {e1}
    FlushAt = 2
    Modes = {"sqlite", "both"}
    Loop = Loop
    NoOne = NoOne
SPECIFICATION FairSpec
INVARIANTS Conserved QueryReadsItsPast
PROPERTIES Settles
CHECK_DEADLOCK FALSE
