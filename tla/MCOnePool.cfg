CONSTANTS
    r1 = r1  r2 = r2  e1 = e1  e2 = e2  P1 = P1  P2 = P2  m = m
    Req = {r1, r2}
    Endpoint = {e1, e2}
    PoolName = {P1}
    NoPool = NoPool
    NoEndpoint = NoEndpoint
    Model = {m}
    NoModel = NoModel
    Endpoints <- OnePool
    Strategy <- OneStrategy
    FallbackOf <- NoFallback
    Models <- MCModels
    Decision <- OnePoolDecisions
    MaxRetries = 2
    Retryable <- MCRetryable
    Threshold = 2
SPECIFICATION Spec
SYMMETRY ReqSymmetry
INVARIANTS TypeOK InflightExact AdmittedAreRunning BreakerShields
PROPERTIES BreakerMoves NoRetryAfterAnswer
