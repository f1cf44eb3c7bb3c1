SPECIFICATION Spec
CONSTANTS
    s1 = s1
    c1 = c1
    c2 = c2
    c3 = c3
    n1 = n1
    Session = {s1}
    Call = {c1, c2}
    Note = {n1}
    Named <- NamedBranch
    MaxFlight = 2
    LastTime = 3
    Limit = 1
    MaxRestarts = 1
INVARIANTS ActiveOnStack CountedOnce LoadedOnce RebuiltAsItWas
PROPERTY StatesOnlyGrow
VIEW Seen
SYMMETRY Calls
CHECK_DEADLOCK FALSE
