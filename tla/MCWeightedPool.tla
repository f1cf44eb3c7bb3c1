--------------------------- MODULE MCWeightedPool ---------------------------
(* Two goroutines over three endpoints.                                    *)
EXTENDS WeightedPool, TLC

CONSTANTS s1, s2

ThreeWeights == <<3, 2, 1>>
TwoServe     == {{1, 3}}

SelectorSymmetry == Permutations(Selector)
=============================================================================
