CONSTANTS
    s1 = s1  s2 = s2
    Selector = {s1, s2}
    Weight <- ThreeWeights
    Filters <- TwoServe
    Flips = 1
SPECIFICATION Spec
SYMMETRY SelectorSymmetry
INVARIANTS WeightConserved PicksAvailable RoundExact
