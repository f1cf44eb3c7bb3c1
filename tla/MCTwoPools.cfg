CONSTANTS
    r1 = r1  r2 = r2  e1 = e1  e2 = e2  P1 = P1  P2 = P2  m = m
    Req = {r1, r2}
    Endpoint = {e1, e2}
    PoolName = {P1, P2}
    NoPool = NoPool
    NoEndpoint = NoEndpoint
    Model = {m}
    NoModel = NoModel
    Endpoints <- TwoPools
    Strategy <- TwoStrategies
    FallbackOf <- P1ToP2
    Models <- MCModels
    Decision <- TwoPoolDecisions
    MaxRetries = 2
    Retryable <- MCRetryable
    Threshold = 1
CONSTRAINT HealthBound
SPECIFICATION FairSpec
PROPERTIES PoolsExhaustedInOrder TrialEnds KeepsPromise
