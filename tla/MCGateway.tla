----------------------------- MODULE MCGateway -----------------------------
(* A small gateway: endpoints e1 and e2, as one pool of two endpoints or   *)
(* as a pool and its fallback pool of one endpoint each.                   *)
EXTENDS Gateway, TLC

CONSTANTS r1, r2, e1, e2, P1, P2, m

OnePool   == P1 :> <<e1, e2>>
TwoPools  == P1 :> <<e1>> @@ P2 :> <<e2>>

OneStrategy == P1 :> "least_conn"
TwoStrategies == P1 :> "round_robin" @@ P2 :> "weighted"

NoFallback == [p \in PoolName |-> NoPool]
P1ToP2     == P1 :> P2 @@ P2 :> NoPool

\* Nothing is known of e1, e2 serves m.
MCModels == e1 :> {} @@ e2 :> {m}

MCRetryable == {"client_error"}

OnePoolDecisions ==
    {[pool |-> P1, endpoint |-> NoEndpoint, model |-> m],
     [pool |-> P1, endpoint |-> e1, model |-> NoModel]}

TwoPoolDecisions ==
    {[pool |-> P1, endpoint |-> NoEndpoint, model |-> NoModel]}

\* Bound: no probe finds an endpoint unhealthy (with one endpoint per pool the
\* breakers already make every endpoint come and go).
HealthBound == \A e \in Endpoint : healthy[e]

ReqSymmetry == Permutations(Req)
=============================================================================
