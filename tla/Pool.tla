------------------------------- MODULE Pool --------------------------------
(***************************************************************************)
(* Endpoint selection of a pool (internal/pool/pool.go).  A pool is the    *)
(* sequence of its endpoints in configuration order.  Each operator is the *)
(* set of endpoints the function may return when `avail` are the endpoints *)
(* that are healthy and whose breaker is not open: the round-robin counter *)
(* and the smooth-weighted counters are abstracted to a choice (module     *)
(* WeightedPool takes the weighted algorithm apart).                       *)
(***************************************************************************)
EXTENDS Naturals, Sequences, Functions

CONSTANT NoEndpoint  \* a selection that returned nil

Members(eps) == Range(eps)

\* The endpoint a scan for the smallest in-flight count keeps: the first of
\* the minimal ones in configuration order.
LeastLoaded(eps, cands, inflight) ==
    {eps[i] : i \in
        {i \in DOMAIN eps :
            /\ eps[i] \in cands
            /\ \A j \in DOMAIN eps :
                  eps[j] \in cands =>
                     \/ inflight[eps[i]] < inflight[eps[j]]
                     \/ inflight[eps[i]] = inflight[eps[j]] /\ i <= j}}

\* No endpoint is available: round robin returns the one its counter is at.
NextRoundRobin(eps, cands) ==
    IF cands = {} THEN Members(eps) ELSE cands

NextLeastConn(eps, cands, inflight) ==
    IF cands = {} THEN {eps[1]} ELSE LeastLoaded(eps, cands, inflight)

\* The weighted scan runs twice; endpoints that drop out between the passes
\* can leave the second one with nothing, and then it returns nil.
NextWeighted(eps, cands) ==
    IF cands = {} THEN {eps[1]} ELSE cands \cup {NoEndpoint}

Next(strategy, eps, avail, inflight) ==
    LET cands == Members(eps) \cap avail
    IN  IF strategy = "least_conn" THEN NextLeastConn(eps, cands, inflight)
        ELSE IF strategy = "weighted" THEN NextWeighted(eps, cands)
        ELSE NextRoundRobin(eps, cands)

\* Only called with at least one candidate; never returns nil.
PickFromCandidates(strategy, eps, cands, inflight) ==
    IF strategy = "least_conn" THEN LeastLoaded(eps, cands, inflight) ELSE cands

\* models[e] are the models e is known to serve, {} when nothing is known.
NextForModel(strategy, eps, model, avail, inflight, models) ==
    LET cands  == {e \in Members(eps) \cap avail : model \in models[e]}
        noInfo == {e \in Members(eps) \cap avail : models[e] = {}}
    IN  IF cands # {}
        THEN PickFromCandidates(strategy, eps, cands, inflight)
        ELSE IF noInfo # {}
        THEN PickFromCandidates(strategy, eps, noInfo, inflight)
        ELSE Next(strategy, eps, avail, inflight)

\* nil unless the named endpoint is in the pool and available.
SelectEndpoint(eps, name, avail) == Members(eps) \cap avail \cap {name}
=============================================================================
