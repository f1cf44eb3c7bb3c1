SPECIFICATION Spec
CONSTANTS
    s1 = s1
    c1 = c1
    c2 = c2
    c3 = c3
    n1 = n1
    Session = {s1}
    Call = {c1, c2, c3}
    Note = {}
    Named <- NoEpisode
    MaxFlight = 1
    LastTime = 1
    Limit = 3
    MaxRestarts = 1
INVARIANT StatesAreOwn
SYMMETRY Calls
CHECK_DEADLOCK FALSE
