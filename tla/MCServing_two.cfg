\* Two overlapping requests, two models with both orders of preference, a breaker
\* that trips at the second failure.
CONSTANTS
    m1 = m1
    m2 = m2
    m3 = m3
    NoModel = NoModel
    Model <- TwoModels
    Chains <- TwoChains
    Request = {r1, r2}
    Threshold = 2
    Cooldown = 1
SPECIFICATION Spec
SYMMETRY RequestSymmetry
INVARIANTS TypeOK BilledForWhatWasServed NoModelTriedTwice
           FailoverIsExhaustive OpenOnlyAfterFailures
PROPERTY OneModelPerAnswer
