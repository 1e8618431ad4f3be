\* Two models: the breaker of the better one is open when a request arrives.
CONSTANTS
    m1 = m1
    m2 = m2
    m3 = m3
    NoModel = NoModel
    Model <- TwoModels
    Chains <- TwoChains
    Request = {r1, r2}
    Threshold = 1
    Cooldown = 1
SPECIFICATION Spec
INVARIANT TriedRatherThanFailing
