\* Three models to fail over to, one request after the other; liveness.
CONSTANTS
    m1 = m1
    m2 = m2
    m3 = m3
    NoModel = NoModel
    Model <- ThreeModels
    Chains <- ThreeChains
    Request = {r1}
    Threshold = 2
    Cooldown = 2
SPECIFICATION FairSpec
PROPERTY EveryRequestEnds
