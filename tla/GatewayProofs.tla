--------------------------- MODULE GatewayProofs ---------------------------
(***************************************************************************)
(* Proofs about the proxy core, for any number of requests, endpoints and  *)
(* pools, any threshold and any retry limit: the inductive invariant, then *)
(* what a step may do - how breakers move, that an answer is never         *)
(* retried, in which order pools are given up, and that every step is one  *)
(* the clients' promise allows.                                            *)
(***************************************************************************)
EXTENDS Gateway, FiniteSetTheorems, TLAPS

----------------------------------------------------------------------------
(* The inductive invariant.                                                *)

Holding == {"picked", "upstream", "streaming", "returned", "leaving"}

\* An attempt past its selection has an endpoint; a request that has moved to
\* its fallback pool has one, and starts on the routed pool.
Placed ==
    \A r \in Req :
        /\ pc[r] \in Holding => ep[r] \in Endpoint
        /\ fallback[r] => FallbackOf[route[r].pool] \in PoolName
        /\ pc[r] = "idle" => ~fallback[r]

\* What the writer holds and the client has, by where the request is.
Written ==
    \A r \in Req :
        /\ pc[r] \in {"idle", "select", "picked", "upstream"} =>
              answer[r] = "none" /\ code[r] # "ok"
        /\ pc[r] = "streaming" => answer[r] = "streaming" /\ code[r] = "ok"
        /\ pc[r] \in {"returned", "leaving"} =>
              IF code[r] = "ok" THEN answer[r] \in {"ok", "truncated"}
                                ELSE answer[r] = "none"
        /\ pc[r] \in {"returned", "leaving"} /\ ~failed[r] =>
              code[r] \in {"ok", "client_error", "early"}
        /\ pc[r] = "answered" =>
              answer[r] \in Answer \ {"none", "streaming", "error"}

\* Everything TypeOK says except that the in-flight counters are not negative,
\* which only InflightExact can tell.
Types ==
    /\ pc \in [Req -> PC]
    /\ route \in [Req -> Decision]
    /\ fallback \in [Req -> BOOLEAN]
    /\ attempt \in [Req -> 0 .. MaxRetries - 1]
    /\ ep \in [Req -> Endpoint \cup {NoEndpoint}]
    /\ code \in [Req -> Code]
    /\ failed \in [Req -> BOOLEAN]
    /\ answer \in [Req -> Answer]
    /\ healthy \in [Endpoint -> BOOLEAN]
    /\ inflight \in [Endpoint -> Int]
    /\ breaker \in [Endpoint -> [state : BreakerState, fails : Nat,
                                 admitted : SUBSET Req]]

IInv ==
    /\ Types
    /\ Placed
    /\ Written
    /\ InflightExact
    /\ AdmittedAreRunning
    /\ BreakerShields

----------------------------------------------------------------------------
(* Lemmas about the operators.                                             *)

\* The loop counter ranges over a proper interval.
LEMMA Retries == MaxRetries \in Nat \ {0} /\ 0 \in 0 .. MaxRetries - 1
<1>1. MaxRetries \in Nat \ {0}
  BY GatewayAssumption
<1>2. QED
  BY <1>1

\* A selection returns an endpoint or nil.
LEMMA SelectionType ==
    ASSUME Types, Placed, NEW r \in Req
    PROVE  Candidates(r) \subseteq Endpoint \cup {NoEndpoint}
<1> DEFINE p == CurrentPool(r)
           eps == Endpoints[p]
<1>1. p \in PoolName
  BY GatewayAssumption DEF CurrentPool, Types, Placed
<1>2. eps \in Seq(Endpoint) /\ eps # <<>>
  BY <1>1, GatewayAssumption
<1>3. Members(eps) \subseteq Endpoint
  BY <1>2 DEF Members, Range
<1>4. eps[1] \in Endpoint
  BY <1>2
<1>5. \A cands : LeastLoaded(eps, cands, inflight) \subseteq Endpoint
  BY <1>2 DEF LeastLoaded
<1>6. Next(Strategy[p], eps, Available, inflight)
        \subseteq Endpoint \cup {NoEndpoint}
  BY <1>3, <1>4, <1>5
  DEF Next, NextRoundRobin, NextLeastConn, NextWeighted
<1>7. NextForModel(Strategy[p], eps, route[r].model, Available, inflight,
                   Models) \subseteq Endpoint \cup {NoEndpoint}
  BY <1>3, <1>5, <1>6 DEF NextForModel, PickFromCandidates
<1>8. SelectEndpoint(eps, route[r].endpoint, Available) \subseteq Endpoint
  BY <1>3 DEF SelectEndpoint
<1>9. QED
  BY <1>6, <1>7, <1>8 DEF Candidates

\* Each breaker transition keeps a breaker a breaker.
LEMMA BreakerType ==
    ASSUME NEW b \in [state : BreakerState, fails : Nat,
                      admitted : SUBSET Req],
           NEW r \in Req, NEW ok \in BOOLEAN
    PROVE  /\ AfterRequest(b, r, ok) \in
                [state : BreakerState, fails : Nat, admitted : SUBSET Req]
           /\ BeforeRequest(b, r) \in
                [state : BreakerState, fails : Nat, admitted : SUBSET Req]
           /\ Expired(b) \in
                [state : BreakerState, fails : Nat, admitted : SUBSET Req]
BY ThresholdAssumption
DEF AfterRequest, OnSuccess, OnFailure, BeforeRequest, Expired, NewGeneration,
    BreakerState

----------------------------------------------------------------------------
(* The shape of a request: its types, its endpoint and its answer.         *)

Shape == Types /\ Placed /\ Written

LEMMA ShapeInit == Init => Shape
<1> SUFFICES ASSUME Init PROVE Shape
  OBVIOUS
<1>1. NoRoute \in Decision
  BY GatewayAssumption DEF NoRoute
<1>2. Types
  BY <1>1, GatewayAssumption
  DEF Init, Types, PC, Code, Answer, NewGeneration, BreakerState
<1>3. Placed /\ Written
  BY DEF Init, Placed, Written, Holding
<1>4. QED
  BY <1>2, <1>3 DEF Shape

\* Giving up a pool, taking the next attempt and committing all keep it.
LEMMA LoopShape ==
    ASSUME Shape, NEW r \in Req,
           pc[r] \in {"select", "leaving"},
           \/ LeavePool(r) /\ code[r] # "ok"
           \/ NextAttempt(r) /\ ~LastAttempt(r) /\ code[r] # "ok"
           \/ Commit(r) /\ pc[r] = "leaving" /\ (failed[r] => code[r] = "ok"),
           failed' \in [Req -> BOOLEAN],
           \A s \in Req \ {r} : failed'[s] = failed[s],
           inflight' \in [Endpoint -> Int],
           UNCHANGED <<route, ep, healthy, breaker>>
    PROVE  Shape'
<1>1. answer[r] = "none" \/ code[r] = "ok"
  BY DEF Shape, Written, PC, Types
<1>2. CASE LeavePool(r) /\ code[r] # "ok"
  <2>1. CASE HasFallback(r)
    <3>1. /\ fallback' = [fallback EXCEPT ![r] = TRUE]
          /\ attempt' = [attempt EXCEPT ![r] = 0]
          /\ pc' = [pc EXCEPT ![r] = "select"]
          /\ UNCHANGED <<code, answer>>
      BY <1>2, <2>1 DEF LeavePool
    <3>2. FallbackOf[route[r].pool] \in PoolName
      BY <2>1, GatewayAssumption DEF HasFallback, Shape, Types
    <3>3. Types'
      BY <3>1, Retries DEF Shape, Types, PC
    <3>4. Placed'
      BY <3>1, <3>2 DEF Shape, Types, Placed, Holding
    <3>5. Written'
      BY <1>1, <1>2, <3>1 DEF Shape, Types, Written
    <3>6. QED
      BY <3>3, <3>4, <3>5 DEF Shape
  <2>2. CASE ~HasFallback(r)
    <3>1. /\ code' = [code EXCEPT ![r] = "error"]
          /\ answer' = [answer EXCEPT ![r] = "exhausted"]
          /\ pc' = [pc EXCEPT ![r] = "answered"]
          /\ UNCHANGED <<fallback, attempt>>
      BY <1>2, <2>2 DEF LeavePool
    <3>2. Types'
      BY <3>1 DEF Shape, Types, PC, Code, Answer
    <3>3. Placed'
      BY <3>1 DEF Shape, Types, Placed, Holding
    <3>4. Written'
      BY <3>1 DEF Shape, Types, Written, Answer
    <3>5. QED
      BY <3>2, <3>3, <3>4 DEF Shape
  <2>3. QED
    BY <2>1, <2>2
<1>3. CASE NextAttempt(r) /\ ~LastAttempt(r) /\ code[r] # "ok"
  <2>1. attempt[r] + 1 \in 0 .. MaxRetries - 1
    BY <1>3, Retries DEF LastAttempt, Shape, Types
  <2>2. QED
    BY <1>1, <1>3, <2>1 DEF NextAttempt, Shape, Types, Placed, Written, Holding,
        PC
<1>4. CASE Commit(r) /\ pc[r] = "leaving" /\ (failed[r] => code[r] = "ok")
  <2>1. IF code[r] = "ok" THEN answer[r] \in {"ok", "truncated"}
        ELSE code[r] \in {"client_error", "early"}
    BY <1>4 DEF Shape, Written, Types
  <2>2. QED
    BY <1>4, <2>1 DEF Commit, Shape, Types, Placed, Written, Holding, PC, Answer,
        Code
<1>5. QED
  BY <1>2, <1>3, <1>4

LEMMA ShapeNext == Shape /\ [GwNext]_vars => Shape'
<1> SUFFICES ASSUME Shape, [GwNext]_vars PROVE Shape'
  OBVIOUS
<1> USE DEF Shape
<1>1. ASSUME NEW r \in Req, Start(r) PROVE Shape'
  <2>1. PICK d \in Decision : route' = [route EXCEPT ![r] = d]
    BY <1>1 DEF Start
  <2>2. Types'
    BY <1>1, <2>1 DEF Start, Types, PC
  <2>3. ~fallback[r]
    BY <1>1 DEF Start, Placed
  <2>4. Placed'
    BY <1>1, <2>1, <2>3 DEF Start, Types, Placed, Holding
  <2>5. Written'
    BY <1>1 DEF Start, Types, Written
  <2>6. QED
    BY <2>2, <2>4, <2>5
<1>2. ASSUME NEW r \in Req, Refuse(r) PROVE Shape'
  BY <1>2 DEF Refuse, Types, Placed, Written, Holding, PC, Answer
<1>3. ASSUME NEW r \in Req, Select(r) PROVE Shape'
  <2>1. ep' \in [Req -> Endpoint \cup {NoEndpoint}] /\ ep'[r] \in Endpoint
    BY <1>3, SelectionType DEF Select, Types
  <2>2. Types'
    BY <1>3, <2>1 DEF Select, Types, PC, Code
  <2>3. Placed' /\ Written'
    BY <1>3, <2>1 DEF Select, Types, Placed, Written, Holding
  <2>4. QED
    BY <2>2, <2>3
<1>4. ASSUME NEW r \in Req, SelectNothing(r) PROVE Shape'
  <2>1. code[r] # "ok"
    BY <1>4 DEF SelectNothing, Written
  <2>2. QED
    BY <1>4, <2>1, LoopShape DEF SelectNothing, Types
<1>5. ASSUME NEW r \in Req, Begin(r) PROVE Shape'
  <2>1. ep[r] \in Endpoint
    BY <1>5 DEF Begin, Placed, Holding
  <2>2. inflight' \in [Endpoint -> Int]
    BY <1>5, <2>1 DEF Begin, Types
  <2>3. breaker' \in [Endpoint -> [state : BreakerState, fails : Nat,
                                   admitted : SUBSET Req]]
    <3>1. breaker[ep[r]] \in [state : BreakerState, fails : Nat,
                              admitted : SUBSET Req]
      BY <2>1 DEF Types
    <3>2. BeforeRequest(breaker[ep[r]], r) \in
            [state : BreakerState, fails : Nat, admitted : SUBSET Req]
      BY <3>1, BreakerType
    <3>3. \/ breaker' = breaker
          \/ breaker' = [breaker EXCEPT
                            ![ep[r]] = BeforeRequest(breaker[ep[r]], r)]
      BY <1>5 DEF Begin
    <3>4. QED
      BY <3>2, <3>3 DEF Types
  <2>4. /\ \/ pc' = [pc EXCEPT ![r] = "upstream"] /\ failed' = failed
           \/ /\ pc' = [pc EXCEPT ![r] = "leaving"]
              /\ failed' = [failed EXCEPT ![r] = TRUE]
        /\ UNCHANGED <<route, fallback, attempt, ep, code, answer, healthy>>
    BY <1>5 DEF Begin
  <2>5. Types'
    BY <2>2, <2>3, <2>4 DEF Types, PC
  <2>6. Placed'
    BY <2>1, <2>4 DEF Types, Placed, Holding
  <2>7. Written'
    <3>1. pc[r] = "picked"
      BY <1>5 DEF Begin
    <3>2. QED
      BY <2>4, <3>1 DEF Types, Written
  <2>8. QED
    BY <2>5, <2>6, <2>7
<1>6. ASSUME NEW r \in Req, Upstream(r) PROVE Shape'
  <2>1. CASE RespondDirect(r)
    <3>1. Types'
      BY <2>1 DEF RespondDirect, Types, PC, Code, Answer
    <3>2. Placed' /\ Written'
      BY <2>1 DEF RespondDirect, Types, Placed, Written, Holding
    <3>3. QED
      BY <3>1, <3>2
  <2>2. CASE RespondBuffered(r)
    <3>1. PICK c \in {"client_error", "early", "error"}, aborted \in BOOLEAN :
             /\ code' = [code EXCEPT ![r] = c]
             /\ failed' = [failed EXCEPT ![r] = c = "error" \/ aborted]
      BY <2>2 DEF RespondBuffered
    <3>2. Types'
      BY <2>2, <3>1 DEF RespondBuffered, Types, PC, Code
    <3>3. Placed'
      BY <2>2 DEF RespondBuffered, Types, Placed, Holding
    <3>4. Written'
      BY <2>2, <3>1 DEF RespondBuffered, Types, Written
    <3>5. QED
      BY <3>2, <3>3, <3>4
  <2>3. QED
    BY <1>6, <2>1, <2>2 DEF Upstream
<1>7. ASSUME NEW r \in Req, StreamEnd(r) PROVE Shape'
  BY <1>7 DEF StreamEnd, Types, Placed, Written, Holding, PC, Answer
<1>8. ASSUME NEW r \in Req, Report(r) PROVE Shape'
  <2>1. ep[r] \in Endpoint
    BY <1>8 DEF Report, TellBreaker, Placed, Holding
  <2>2. breaker' \in [Endpoint -> [state : BreakerState, fails : Nat,
                                   admitted : SUBSET Req]]
    BY <1>8, <2>1, BreakerType DEF Report, TellBreaker, Types
  <2>3. QED
    BY <1>8, <2>2 DEF Report, TellBreaker, Types, Placed, Written, Holding, PC
<1>9. ASSUME NEW r \in Req, Leave(r) PROVE Shape'
  <2>1. ep[r] \in Endpoint
    BY <1>9 DEF Leave, Dec, Placed, Holding
  <2>2. inflight' \in [Endpoint -> Int]
    BY <1>9, <2>1 DEF Leave, Dec, Types
  <2>3. /\ failed' \in [Req -> BOOLEAN]
        /\ \A s \in Req \ {r} : failed'[s] = failed[s]
    BY <1>9 DEF Leave, Dec, Types
  <2>4. \/ LeavePool(r) /\ code[r] # "ok"
        \/ NextAttempt(r) /\ ~LastAttempt(r) /\ code[r] # "ok"
        \/ Commit(r) /\ (failed[r] => code[r] = "ok")
    BY <1>9 DEF Leave, Resolve, RetryBuffered, Continue
  <2>5. QED
    BY <1>9, <2>2, <2>3, <2>4, LoopShape DEF Leave
<1>10. ASSUME NEW r \in Req, Finish(r) PROVE Shape'
  <2>1. NoRoute \in Decision
    BY GatewayAssumption DEF NoRoute
  <2>2. 0 \in 0 .. MaxRetries - 1
    BY GatewayAssumption
  <2>3. QED
    BY <1>10, <2>1, <2>2 DEF Finish, Types, Placed, Written, Holding, PC, Code,
        Answer
<1>11. ASSUME NEW e \in Endpoint, Probe(e) PROVE Shape'
  BY <1>11 DEF Probe, reqVars, Types, Placed, Written, Holding
<1>12. ASSUME NEW e \in Endpoint, BreakerTimer(e) PROVE Shape'
  <2>1. breaker' \in [Endpoint -> [state : BreakerState, fails : Nat,
                                   admitted : SUBSET Req]]
    BY <1>12 DEF BreakerTimer, Types, Expired, NewGeneration, BreakerState
  <2>2. QED
    BY <1>12, <2>1 DEF BreakerTimer, reqVars, Types, Placed, Written, Holding
<1>13. CASE UNCHANGED vars
  BY <1>13 DEF vars, reqVars, Types, Placed, Written, Holding
<1>14. QED
  BY <1>1, <1>2, <1>3, <1>4, <1>5, <1>6, <1>7, <1>8, <1>9, <1>10, <1>11,
     <1>12, <1>13 DEF GwNext, Step

----------------------------------------------------------------------------
(* The breakers.                                                           *)

Breakers == AdmittedAreRunning /\ BreakerShields

\* What one breaker satisfies, whichever requests are running.
Sound(b) ==
    /\ b.state = "open" => b.admitted = {}
    /\ b.state = "half_open" => \A r, s \in b.admitted : r = s
    /\ b.state # "closed" => b.fails = 0
    /\ b.fails > 0 => b.fails < Threshold

\* Admitting a call a breaker may admit, taking a result and letting its timer
\* run out keep it sound, and none of them admits a call of another request.
LEMMA BreakerSteps ==
    ASSUME NEW b \in [state : BreakerState, fails : Nat,
                      admitted : SUBSET Req],
           Sound(b), NEW r \in Req, NEW ok \in BOOLEAN
    PROVE  /\ Admits(b) => Sound(BeforeRequest(b, r))
           /\ BeforeRequest(b, r).admitted = b.admitted \cup {r}
           /\ Sound(AfterRequest(b, r, ok))
           /\ AfterRequest(b, r, ok).admitted \subseteq b.admitted \ {r}
           /\ Sound(Expired(b))
           /\ Expired(b).admitted = {}
<1>1. ASSUME Admits(b) PROVE Sound(BeforeRequest(b, r))
  <2>1. /\ BeforeRequest(b, r).state = b.state
        /\ BeforeRequest(b, r).fails = b.fails
        /\ BeforeRequest(b, r).admitted = b.admitted \cup {r}
    BY DEF BeforeRequest
  <2>2. b.state = "half_open" => b.admitted = {}
    BY <1>1 DEF Admits
  <2>3. b.state # "open"
    BY <1>1 DEF Admits
  <2>4. QED
    BY <2>1, <2>2, <2>3 DEF Sound
<1>2. BeforeRequest(b, r).admitted = b.admitted \cup {r}
  BY DEF BeforeRequest
<1>3. ASSUME r \in b.admitted
      PROVE  /\ Sound(OnSuccess(b, r))
             /\ OnSuccess(b, r).admitted \subseteq b.admitted \ {r}
  BY <1>3 DEF Sound, OnSuccess, NewGeneration, BreakerState
<1>4. ASSUME r \in b.admitted
      PROVE  /\ Sound(OnFailure(b, r))
             /\ OnFailure(b, r).admitted \subseteq b.admitted \ {r}
  BY <1>4, ThresholdAssumption
  DEF Sound, OnFailure, NewGeneration, BreakerState
<1>5. Sound(AfterRequest(b, r, ok))
      /\ AfterRequest(b, r, ok).admitted \subseteq b.admitted \ {r}
  BY <1>3, <1>4 DEF AfterRequest
<1>6. Sound(Expired(b)) /\ Expired(b).admitted = {}
  BY DEF Sound, Expired, NewGeneration, BreakerState
<1>7. QED
  BY <1>1, <1>2, <1>5, <1>6

LEMMA BreakersInit == Init => Breakers
BY DEF Init, Breakers, AdmittedAreRunning, BreakerShields, NewGeneration

\* A step that leaves the breakers alone and moves no running call off its
\* endpoint keeps them sound.
LEMMA BreakersUntouched ==
    ASSUME Breakers, breaker' = breaker,
           \A r \in Req : pc[r] \in {"upstream", "streaming", "returned"} =>
              ep'[r] = ep[r] /\ pc'[r] \in {"upstream", "streaming", "returned"},
           Types
    PROVE  Breakers'
BY DEF Breakers, AdmittedAreRunning, BreakerShields, Types

LEMMA BreakersNext == Shape /\ Breakers /\ [GwNext]_vars => Breakers'
<1> SUFFICES ASSUME Shape, Breakers, [GwNext]_vars PROVE Breakers'
  OBVIOUS
<1> DEFINE Running == {"upstream", "streaming", "returned"}
<1>a. Types /\ Placed
  BY DEF Shape
<1>b. ASSUME NEW e \in Endpoint PROVE Sound(breaker[e])
  BY DEF Breakers, BreakerShields, Sound
<1>c. ASSUME \A e \in Endpoint : Sound(breaker'[e]) PROVE BreakerShields'
  BY <1>c DEF BreakerShields, Sound
<1>1. ASSUME NEW r \in Req, Start(r) \/ Refuse(r) \/ Select(r) PROVE Breakers'
  BY <1>1, <1>a, BreakersUntouched DEF Start, Refuse, Select, Types
<1>2. ASSUME NEW r \in Req, SelectNothing(r) PROVE Breakers'
  BY <1>2, <1>a, BreakersUntouched
  DEF SelectNothing, LeavePool, Types
<1>3. ASSUME NEW r \in Req, Begin(r) PROVE Breakers'
  <2>1. ep[r] \in Endpoint /\ pc[r] = "picked"
    BY <1>3, <1>a DEF Begin, Placed, Holding
  <2>2. CASE breaker' = breaker
    BY <1>3, <1>a, <2>1, <2>2, BreakersUntouched DEF Begin, Types
  <2>3. CASE /\ Admits(breaker[ep[r]])
             /\ pc' = [pc EXCEPT ![r] = "upstream"]
             /\ breaker' = [breaker EXCEPT
                               ![ep[r]] = BeforeRequest(breaker[ep[r]], r)]
    <3>1. breaker[ep[r]] \in [state : BreakerState, fails : Nat,
                              admitted : SUBSET Req]
      BY <1>a, <2>1 DEF Types
    <3>2. /\ Sound(BeforeRequest(breaker[ep[r]], r))
          /\ BeforeRequest(breaker[ep[r]], r).admitted
                = breaker[ep[r]].admitted \cup {r}
      BY <1>b, <2>1, <2>3, <3>1, BreakerSteps
    <3>3. ep' = ep
      BY <1>3 DEF Begin
    <3>4. BreakerShields'
      BY <1>a, <1>b, <1>c, <2>1, <2>3, <3>2 DEF Types
    <3>5. AdmittedAreRunning'
      BY <1>a, <2>1, <2>3, <3>2, <3>3 DEF Breakers, AdmittedAreRunning, Types
    <3>6. QED
      BY <3>4, <3>5 DEF Breakers
  <2>4. QED
    BY <1>3, <2>2, <2>3 DEF Begin
<1>4. ASSUME NEW r \in Req, Upstream(r) \/ StreamEnd(r) PROVE Breakers'
  BY <1>4, <1>a, BreakersUntouched
  DEF Upstream, RespondDirect, RespondBuffered, StreamEnd, Types
<1>5. ASSUME NEW r \in Req, Report(r) PROVE Breakers'
  <2>1. /\ ep[r] \in Endpoint
        /\ breaker' = [breaker EXCEPT
              ![ep[r]] = AfterRequest(breaker[ep[r]], r, ~failed[r])]
        /\ pc' = [pc EXCEPT ![r] = "leaving"]
        /\ ep' = ep
    BY <1>5, <1>a DEF Report, TellBreaker, Placed, Holding
  <2>2. breaker[ep[r]] \in [state : BreakerState, fails : Nat,
                            admitted : SUBSET Req]
    BY <1>a, <2>1 DEF Types
  <2> (~failed[r]) \in BOOLEAN
    OBVIOUS
  <2>3. /\ Sound(AfterRequest(breaker[ep[r]], r, ~failed[r]))
        /\ AfterRequest(breaker[ep[r]], r, ~failed[r]).admitted
              \subseteq breaker[ep[r]].admitted \ {r}
    BY <1>b, <2>1, <2>2, BreakerSteps
  <2>4. BreakerShields'
    BY <1>a, <1>b, <1>c, <2>1, <2>3 DEF Types
  <2>5. AdmittedAreRunning'
    BY <1>a, <2>1, <2>3 DEF Breakers, AdmittedAreRunning, Types
  <2>6. QED
    BY <2>4, <2>5 DEF Breakers
<1>6. ASSUME NEW r \in Req, Leave(r) PROVE Breakers'
  <2>1. breaker' = breaker /\ ep' = ep /\ pc[r] = "leaving"
    BY <1>6 DEF Leave
  <2>2. \A s \in Req \ {r} : pc'[s] = pc[s]
    BY <1>6, <1>a DEF Leave, Resolve, RetryBuffered, Commit, Continue, LeavePool, NextAttempt,
        Types
  <2>3. QED
    BY <1>a, <2>1, <2>2, BreakersUntouched
<1>7. ASSUME NEW r \in Req, Finish(r) PROVE Breakers'
  BY <1>7, <1>a, BreakersUntouched DEF Finish, Types
<1>8. ASSUME NEW e \in Endpoint, Probe(e) PROVE Breakers'
  BY <1>8, <1>a, BreakersUntouched DEF Probe, reqVars
<1>9. ASSUME NEW e \in Endpoint, BreakerTimer(e) PROVE Breakers'
  <2>1. /\ breaker' = [breaker EXCEPT ![e] = Expired(breaker[e])]
        /\ UNCHANGED <<pc, ep>>
    BY <1>9 DEF BreakerTimer, reqVars
  <2>2. Sound(Expired(breaker[e])) /\ Expired(breaker[e]).admitted = {}
    <3>1. breaker[e] \in [state : BreakerState, fails : Nat,
                          admitted : SUBSET Req]
      BY <1>a DEF Types
    <3>2. QED
      BY DEF Sound, Expired, NewGeneration, BreakerState
  <2>3. BreakerShields'
    BY <1>a, <1>b, <1>c, <2>1, <2>2 DEF Types
  <2>4. AdmittedAreRunning'
    BY <1>a, <2>1, <2>2 DEF Breakers, AdmittedAreRunning, Types
  <2>5. QED
    BY <2>3, <2>4 DEF Breakers
<1>10. CASE UNCHANGED vars
  BY <1>10, <1>a, BreakersUntouched DEF vars, reqVars
<1>11. QED
  BY <1>1, <1>2, <1>3, <1>4, <1>5, <1>6, <1>7, <1>8, <1>9, <1>10
  DEF GwNext, Step

----------------------------------------------------------------------------
(* The in-flight counters.                                                 *)

LEMMA BusyFinite ==
    ASSUME NEW e
    PROVE  IsFiniteSet(Busy(e)) /\ Cardinality(Busy(e)) \in Nat
<1>1. Busy(e) \subseteq Req
  BY DEF Busy
<1>2. IsFiniteSet(Busy(e))
  BY <1>1, GatewayAssumption, FS_Subset
<1>3. QED
  BY <1>2, FS_CardinalityType

\* A step that leaves the counters alone and no request's occupation changes.
LEMMA InflightUntouched ==
    ASSUME InflightExact, inflight' = inflight,
           \A e \in Endpoint : Busy(e)' = Busy(e)
    PROVE  InflightExact'
BY DEF InflightExact

LEMMA InflightInit == Init => InflightExact
<1> SUFFICES ASSUME Init, NEW e \in Endpoint
             PROVE  inflight[e] = Cardinality(Busy(e))
  BY DEF InflightExact
<1>1. Busy(e) = {}
  BY DEF Init, Busy
<1>2. QED
  BY <1>1, FS_EmptySet DEF Init

LEMMA InflightNext == Shape /\ InflightExact /\ [GwNext]_vars => InflightExact'
<1> SUFFICES ASSUME Shape, InflightExact, [GwNext]_vars PROVE InflightExact'
  OBVIOUS
<1>a. Types /\ Placed
  BY DEF Shape
<1>1. ASSUME NEW r \in Req, Begin(r) PROVE InflightExact'
  <2>1. /\ ep[r] \in Endpoint /\ pc[r] = "picked"
        /\ pc' \in {[pc EXCEPT ![r] = "upstream"], [pc EXCEPT ![r] = "leaving"]}
        /\ ep' = ep
        /\ inflight' = [inflight EXCEPT ![ep[r]] = @ + 1]
    BY <1>1, <1>a DEF Begin, Placed, Holding
  <2>2. Busy(ep[r])' = Busy(ep[r]) \cup {r} /\ r \notin Busy(ep[r])
    BY <1>a, <2>1 DEF Busy, Types
  <2>3. \A e \in Endpoint \ {ep[r]} : Busy(e)' = Busy(e)
    BY <1>a, <2>1 DEF Busy, Types
  <2>4. Cardinality(Busy(ep[r])') = Cardinality(Busy(ep[r])) + 1
    BY <2>2, BusyFinite, FS_AddElement
  <2>5. QED
    BY <1>a, <2>1, <2>3, <2>4 DEF InflightExact, Types
<1>2. ASSUME NEW r \in Req, Leave(r) PROVE InflightExact'
  <2>1. /\ ep[r] \in Endpoint /\ pc[r] = "leaving"
        /\ ep' = ep
        /\ inflight' = [inflight EXCEPT ![ep[r]] = @ - 1]
    BY <1>2, <1>a DEF Leave, Dec, Placed, Holding
  <2>2. pc' \in {[pc EXCEPT ![r] = "select"], [pc EXCEPT ![r] = "answered"]}
    BY <1>2 DEF Leave, Resolve, RetryBuffered, Commit, Continue, LeavePool, NextAttempt
  <2>3. Busy(ep[r])' = Busy(ep[r]) \ {r} /\ r \in Busy(ep[r])
    BY <1>a, <2>1, <2>2 DEF Busy, Types
  <2>4. \A e \in Endpoint \ {ep[r]} : Busy(e)' = Busy(e)
    BY <1>a, <2>1, <2>2 DEF Busy, Types
  <2>5. Cardinality(Busy(ep[r])') = Cardinality(Busy(ep[r])) - 1
    BY <2>3, BusyFinite, FS_RemoveElement
  <2>6. QED
    BY <1>a, <2>1, <2>4, <2>5 DEF InflightExact, Types
<1>3. ASSUME NEW r \in Req, Select(r)
      PROVE  InflightExact'
  <2>1. PICK e \in Candidates(r) \ {NoEndpoint} : ep' = [ep EXCEPT ![r] = e]
    BY <1>3 DEF Select
  <2>2. /\ pc[r] = "select" /\ pc' = [pc EXCEPT ![r] = "picked"]
        /\ inflight' = inflight
    BY <1>3 DEF Select
  <2>3. \A f \in Endpoint : Busy(f)' = Busy(f)
    BY <1>a, <2>1, <2>2 DEF Busy, Types
  <2>4. QED
    BY <2>2, <2>3, InflightUntouched
<1>4. ASSUME NEW r \in Req, SelectNothing(r) PROVE InflightExact'
  <2>1. /\ pc[r] = "select" /\ UNCHANGED <<ep, inflight>>
        /\ pc' \in {[pc EXCEPT ![r] = "select"], [pc EXCEPT ![r] = "answered"]}
    BY <1>4 DEF SelectNothing, LeavePool
  <2>2. \A e \in Endpoint : Busy(e)' = Busy(e)
    BY <1>a, <2>1 DEF Busy, Types
  <2>3. QED
    BY <2>1, <2>2, InflightUntouched
<1>5. ASSUME NEW r \in Req, Finish(r) PROVE InflightExact'
  <2>1. /\ pc[r] = "answered" /\ pc' = [pc EXCEPT ![r] = "idle"]
        /\ ep' = [ep EXCEPT ![r] = NoEndpoint] /\ inflight' = inflight
    BY <1>5 DEF Finish
  <2>2. \A e \in Endpoint : Busy(e)' = Busy(e)
    BY <1>a, <2>1 DEF Busy, Types
  <2>3. QED
    BY <2>1, <2>2, InflightUntouched
<1>6. ASSUME NEW r \in Req,
             Start(r) \/ Refuse(r) \/ Upstream(r) \/ StreamEnd(r) \/ Report(r)
      PROVE  InflightExact'
  <2>1. /\ UNCHANGED <<ep, inflight>>
        /\ \/ /\ pc[r] = "idle"
              /\ pc' \in {[pc EXCEPT ![r] = "select"],
                          [pc EXCEPT ![r] = "answered"]}
           \/ /\ pc[r] \in {"upstream", "streaming", "returned"}
              /\ pc' \in {[pc EXCEPT ![r] = "streaming"],
                          [pc EXCEPT ![r] = "returned"],
                          [pc EXCEPT ![r] = "leaving"]}
    BY <1>6
    DEF Start, Refuse, Upstream, RespondDirect, RespondBuffered, StreamEnd,
        Report, TellBreaker
  <2>2. \A e \in Endpoint : Busy(e)' = Busy(e)
    BY <1>a, <2>1 DEF Busy, Types
  <2>3. QED
    BY <2>1, <2>2, InflightUntouched
<1>7. ASSUME UNCHANGED <<pc, ep, inflight>> PROVE InflightExact'
  <2>1. \A e \in Endpoint : Busy(e)' = Busy(e)
    BY <1>7 DEF Busy
  <2>2. QED
    BY <1>7, <2>1, InflightUntouched
<1>8. QED
  BY <1>1, <1>2, <1>3, <1>4, <1>5, <1>6, <1>7
  DEF GwNext, Step, Probe, BreakerTimer, vars, reqVars

----------------------------------------------------------------------------
(* The theorems.                                                           *)

\* The inductive invariant: the types and, by where each request is, what its
\* endpoint, its writer and its client hold, with the three safety invariants.
THEOREM Inductive == Spec => []IInv
<1>1. Init => IInv
  BY ShapeInit, BreakersInit, InflightInit DEF IInv, Shape, Breakers
<1>2. IInv /\ [GwNext]_vars => IInv'
  BY ShapeNext, BreakersNext, InflightNext DEF IInv, Shape, Breakers
<1>3. QED
  BY <1>1, <1>2, PTL DEF Spec

\* Every state is well typed; in particular an in-flight counter is never
\* negative, however the attempts on the endpoint end.
THEOREM TypeCorrect == Spec => []TypeOK
<1>1. IInv => TypeOK
  <2> SUFFICES ASSUME IInv PROVE TypeOK
    OBVIOUS
  <2>1. \A e \in Endpoint : inflight[e] \in Nat
    BY BusyFinite DEF IInv, InflightExact
  <2>2. QED
    BY <2>1 DEF IInv, Types, TypeOK
<1>2. QED
  BY <1>1, Inductive, PTL

\* The in-flight counter of every endpoint is exactly the number of requests
\* on it.
THEOREM InflightIsExact == Spec => []InflightExact
<1>1. IInv => InflightExact
  BY DEF IInv
<1>2. QED
  BY <1>1, Inductive, PTL

\* No exit path of Execute leaks a call that the breaker admitted.
THEOREM NoTrialLeaks == Spec => []AdmittedAreRunning
<1>1. IInv => AdmittedAreRunning
  BY DEF IInv
<1>2. QED
  BY <1>1, Inductive, PTL

\* An open breaker has no call of its own running, a half-open one at most one
\* trial, and a closed one is below its threshold.
THEOREM BreakersShield == Spec => []BreakerShields
<1>1. IInv => BreakerShields
  BY DEF IInv
<1>2. QED
  BY <1>1, Inductive, PTL

----------------------------------------------------------------------------
(* Helpers.                                                                *)

\* Nothing of the pools, the loop or the client changes in a request by the
\* step of another one.
OthersKeep(r) ==
    \A s \in Req \ {r} :
        /\ pc'[s] = pc[s] /\ answer'[s] = answer[s]
        /\ attempt'[s] = attempt[s] /\ fallback'[s] = fallback[s]
        /\ ep'[s] = ep[s]

LEMMA StepIsLocal ==
    ASSUME Types, NEW r \in Req, Start(r) \/ Step(r) \/ Refuse(r)
    PROVE  OthersKeep(r)
<1>1. CASE Start(r) \/ Refuse(r) \/ Finish(r)
  BY <1>1 DEF Start, Refuse, Finish, OthersKeep, Types
<1>2. CASE Select(r) \/ Begin(r)
  BY <1>2 DEF Select, Begin, OthersKeep, Types
<1>3. CASE SelectNothing(r)
  BY <1>3 DEF SelectNothing, LeavePool, OthersKeep, Types
<1>4. CASE Upstream(r) \/ StreamEnd(r) \/ Report(r)
  BY <1>4 DEF Upstream, RespondDirect, RespondBuffered, StreamEnd, Report,
              OthersKeep, Types
<1>5. CASE Leave(r)
  <2>1. UNCHANGED ep /\ Resolve(r)
    BY <1>5 DEF Leave
  <2>2. NextAttempt(r) \/ LeavePool(r) \/ Commit(r)
    BY <2>1 DEF Resolve, Continue, RetryBuffered
  <2>3. QED
    BY <2>1, <2>2 DEF NextAttempt, LeavePool, Commit, OthersKeep, Types
<1>6. QED
  BY <1>1, <1>2, <1>3, <1>4, <1>5 DEF Step

----------------------------------------------------------------------------
(* How breakers move.                                                      *)

LEMMA BreakerStepHolds == IInv /\ [GwNext]_vars => [BreakerStep]_vars
<1> SUFFICES ASSUME IInv, GwNext, NEW e \in Endpoint,
                    breaker[e].state # breaker'[e].state
             PROVE  LET from == breaker[e].state
                        to   == breaker'[e].state
                    IN  \/ from = "open" /\ to = "half_open"
                        \/ from # "open" /\ to = "open"
                              /\ \E r \in Req : Reports(r, e, TRUE)
                        \/ from = "half_open" /\ to = "closed"
                              /\ \E r \in Req : Reports(r, e, FALSE)
  BY DEF BreakerStep
<1>a. breaker[e] \in [state : BreakerState, fails : Nat, admitted : SUBSET Req]
  BY DEF IInv, Types
<1>b. breaker[e].state = "open" => breaker[e].admitted = {}
  BY DEF IInv, BreakerShields
<1>1. ASSUME NEW r \in Req, Begin(r) PROVE FALSE
  <2>1. ep[r] \in Endpoint
    BY <1>1 DEF Begin, IInv, Placed, Holding
  <2>2. \/ breaker' = breaker
        \/ breaker' = [breaker EXCEPT ![ep[r]] = BeforeRequest(breaker[ep[r]], r)]
    BY <1>1 DEF Begin
  <2>3. BeforeRequest(breaker[e], r).state = breaker[e].state
    BY <1>a DEF BeforeRequest
  <2>4. QED
    BY <2>1, <2>2, <2>3 DEF IInv, Types
<1>2. ASSUME NEW r \in Req, Report(r)
      PROVE  LET from == breaker[e].state
                 to   == breaker'[e].state
             IN  \/ from # "open" /\ to = "open" /\ Reports(r, e, TRUE)
                 \/ from = "half_open" /\ to = "closed" /\ Reports(r, e, FALSE)
  <2>1. /\ pc[r] = "returned" /\ pc' = [pc EXCEPT ![r] = "leaving"]
        /\ breaker' = [breaker EXCEPT
              ![ep[r]] = AfterRequest(breaker[ep[r]], r, ~failed[r])]
    BY <1>2 DEF Report, TellBreaker
  <2>2. e = ep[r] /\ breaker'[e] = AfterRequest(breaker[e], r, ~failed[r])
    BY <2>1 DEF IInv, Types
  <2>3. r \in breaker[e].admitted /\ breaker[e].state # "open"
    BY <1>b, <2>2 DEF AfterRequest
  <2>4. failed[r] \in BOOLEAN /\ pc'[r] = "leaving"
    BY <2>1 DEF IInv, Types
  <2>5. CASE failed[r]
    <3>1. breaker'[e] = OnFailure(breaker[e], r)
      BY <2>2, <2>3, <2>5 DEF AfterRequest
    <3>2. breaker'[e].state = "open"
      BY <3>1 DEF OnFailure, NewGeneration
    <3>3. Reports(r, e, TRUE)
      BY <2>1, <2>3, <2>4, <2>5 DEF Reports
    <3>4. QED
      BY <2>3, <3>2, <3>3
  <2>6. CASE ~failed[r]
    <3>1. breaker'[e] = OnSuccess(breaker[e], r)
      BY <2>2, <2>3, <2>6 DEF AfterRequest
    <3>2. breaker[e].state = "half_open" /\ breaker'[e].state = "closed"
      BY <3>1 DEF OnSuccess, NewGeneration
    <3>3. Reports(r, e, FALSE)
      BY <2>1, <2>3, <2>4, <2>6 DEF Reports
    <3>4. QED
      BY <3>2, <3>3
  <2>7. QED
    BY <2>4, <2>5, <2>6
<1>3. ASSUME NEW f \in Endpoint, BreakerTimer(f)
      PROVE  breaker[e].state = "open" /\ breaker'[e].state = "half_open"
  <2>1. breaker' = [breaker EXCEPT ![f] = Expired(breaker[f])]
    BY <1>3 DEF BreakerTimer
  <2>2. e = f /\ breaker'[e] = Expired(breaker[e])
    BY <2>1 DEF IInv, Types
  <2>3. QED
    BY <2>2 DEF Expired, NewGeneration
<1>4. ASSUME UNCHANGED breaker PROVE FALSE
  BY <1>4
<1>5. QED
  BY <1>1, <1>2, <1>3, <1>4
  DEF GwNext, Step, Start, Refuse, Select, SelectNothing, Upstream,
      RespondDirect, RespondBuffered, StreamEnd, Leave, Finish, Probe

\* Breakers open on a failure and close on a success of a call of their present
\* generation; no result that comes late moves one (module Breaker).
THEOREM BreakersMove == Spec => BreakerMoves
<1>1. QED
  BY Inductive, BreakerStepHolds, PTL DEF Spec, BreakerMoves

----------------------------------------------------------------------------
(* An answer is never retried.                                             *)

\* Where a request is when its client has something.
LEMMA AnsweredIsLate ==
    ASSUME IInv, NEW r \in Req, answer[r] # "none"
    PROVE  \/ pc[r] \in {"streaming", "answered"}
           \/ pc[r] \in {"returned", "leaving"} /\ code[r] = "ok"
BY DEF IInv, Types, PC, Written

LEMMA AnsweredStepHolds == IInv /\ [GwNext]_vars => [AnsweredStep]_vars
<1> SUFFICES ASSUME IInv, GwNext, NEW r \in Req,
                    answer[r] # "none", pc'[r] # "idle"
             PROVE  /\ pc'[r] \notin {"select", "picked", "upstream"}
                    /\ UNCHANGED <<attempt[r], fallback[r], ep[r]>>
  BY DEF AnsweredStep
<1>a. \/ pc[r] \in {"streaming", "answered"}
      \/ pc[r] \in {"returned", "leaving"} /\ code[r] = "ok"
  BY AnsweredIsLate
<1>b. Types
  BY DEF IInv
<1>1. ASSUME NEW s \in Req, s # r, Start(s) \/ Step(s) \/ Refuse(s)
      PROVE  /\ pc'[r] = pc[r]
             /\ UNCHANGED <<attempt[r], fallback[r], ep[r]>>
  BY <1>1, <1>b, StepIsLocal DEF OthersKeep
<1>2. CASE Start(r) \/ Refuse(r) \/ Select(r) \/ SelectNothing(r) \/ Begin(r)
           \/ Upstream(r)
  BY <1>2, <1>a
  DEF Start, Refuse, Select, SelectNothing, Begin, Upstream, RespondDirect,
      RespondBuffered
<1>3. CASE StreamEnd(r) \/ Report(r)
  BY <1>3, <1>b DEF StreamEnd, Report, Types
<1>4. CASE Leave(r)
  <2>1. code[r] = "ok" /\ UNCHANGED ep
    BY <1>4, <1>a DEF Leave
  <2>2. Commit(r)
    BY <1>4, <2>1 DEF Leave, Resolve, RetryBuffered
  <2>3. QED
    BY <1>b, <2>1, <2>2 DEF Commit, Types
<1>5. CASE Finish(r)
  BY <1>5, <1>b DEF Finish, Types
<1>6. CASE \E e \in Endpoint : Probe(e) \/ BreakerTimer(e)
  BY <1>6, <1>a DEF Probe, BreakerTimer, reqVars
<1>7. QED
  BY <1>1, <1>2, <1>3, <1>4, <1>5, <1>6, <1>a DEF GwNext, Step

\* A request whose client has received anything makes no further attempt.
THEOREM AnswersAreFinal == Spec => NoRetryAfterAnswer
<1>1. QED
  BY Inductive, AnsweredStepHolds, PTL DEF Spec, NoRetryAfterAnswer

----------------------------------------------------------------------------
(* Pools are given up in order.                                            *)

\* Only a weighted pool's selection may return nil.
LEMMA NilIsWeighted ==
    ASSUME IInv, NEW r \in Req, NoEndpoint \in Candidates(r)
    PROVE  Strategy[CurrentPool(r)] = "weighted"
<1> DEFINE p == CurrentPool(r)
           eps == Endpoints[p]
<1> SUFFICES ASSUME Strategy[p] # "weighted" PROVE FALSE
  OBVIOUS
<1>1. p \in PoolName
  BY GatewayAssumption DEF CurrentPool, IInv, Types, Placed
<1>2. eps \in Seq(Endpoint) /\ eps # <<>>
  BY <1>1, GatewayAssumption
<1>3. Members(eps) \subseteq Endpoint /\ eps[1] \in Endpoint
  BY <1>2 DEF Members, Range
<1>4. \A cands : LeastLoaded(eps, cands, inflight) \subseteq Endpoint
  BY <1>2 DEF LeastLoaded
<1>5. Next(Strategy[p], eps, Available, inflight) \subseteq Endpoint
  BY <1>3, <1>4 DEF Next, NextRoundRobin, NextLeastConn
<1>6. NextForModel(Strategy[p], eps, route[r].model, Available, inflight,
                   Models) \subseteq Endpoint
  BY <1>3, <1>4, <1>5 DEF NextForModel, PickFromCandidates
<1>7. SelectEndpoint(eps, route[r].endpoint, Available) \subseteq Endpoint
  BY <1>3 DEF SelectEndpoint
<1>8. Candidates(r) \subseteq Endpoint
  BY <1>5, <1>6, <1>7 DEF Candidates
<1>9. QED
  BY <1>8, GatewayAssumption

LEMMA PoolStepHolds == IInv /\ [GwNext]_vars => [PoolStep]_vars
<1> SUFFICES ASSUME IInv, GwNext, NEW r \in Req, GivesUpPool(r)
             PROVE  /\ \/ pc[r] = "leaving" /\ failed[r] /\ LastAttempt(r)
                       \/ pc[r] = "select"
                             /\ Strategy[CurrentPool(r)] = "weighted"
                    /\ answer'[r] = "exhausted" => ~HasFallback(r)
  BY DEF PoolStep
<1>a. Types
  BY DEF IInv
<1>1. ASSUME LeavePool(r), pc[r] \in {"select", "leaving"},
             pc[r] = "leaving" => code[r] # "ok"
      PROVE  answer'[r] = "exhausted" => ~HasFallback(r)
  <2>1. answer[r] = "none"
    BY <1>1, AnsweredIsLate
  <2>2. QED
    BY <1>1, <2>1 DEF LeavePool
<1>2. ASSUME NEW s \in Req, s # r, Start(s) \/ Step(s) \/ Refuse(s) PROVE FALSE
  BY <1>2, <1>a, StepIsLocal DEF OthersKeep, GivesUpPool, Types
<1>3. CASE SelectNothing(r)
  BY <1>1, <1>3, NilIsWeighted DEF SelectNothing
<1>4. CASE Leave(r)
  <2>1. pc[r] = "leaving" /\ Resolve(r)
    BY <1>4 DEF Leave
  <2>2. CASE NextAttempt(r) \/ Commit(r)
    <3>1. fallback' = fallback
      BY <2>2 DEF NextAttempt, Commit
    <3>2. answer'[r] # "exhausted" \/ answer[r] = "exhausted"
      BY <2>2, <1>a DEF NextAttempt, Commit, Types, Code
    <3>3. QED
      BY <3>1, <3>2, <1>a DEF GivesUpPool, Types
  <2>3. CASE LeavePool(r) /\ failed[r] /\ LastAttempt(r) /\ code[r] # "ok"
    BY <1>1, <2>1, <2>3
  <2>4. QED
    BY <2>1, <2>2, <2>3 DEF Resolve, Continue, RetryBuffered
<1>5. CASE Start(r) \/ Refuse(r) \/ Select(r) \/ Begin(r) \/ Upstream(r)
           \/ StreamEnd(r) \/ Report(r) \/ Finish(r)
  <2>1. fallback'[r] => fallback[r]
    BY <1>5, <1>a
    DEF Start, Refuse, Select, Begin, Upstream, RespondDirect, RespondBuffered,
        StreamEnd, Report, Finish, Types
  <2>2. answer'[r] = "exhausted" => answer[r] = "exhausted"
    BY <1>5, <1>a
    DEF Start, Refuse, Select, Begin, Upstream, RespondDirect, RespondBuffered,
        StreamEnd, Report, Finish, Types
  <2>3. QED
    BY <2>1, <2>2 DEF GivesUpPool
<1>6. CASE \E e \in Endpoint : Probe(e) \/ BreakerTimer(e)
  BY <1>6 DEF Probe, BreakerTimer, reqVars, GivesUpPool
<1>7. QED
  BY <1>2, <1>3, <1>4, <1>5, <1>6 DEF GwNext, Step

\* The fallback pool and the gateway's own 503 come after the last failed
\* attempt on a pool only, unless a weighted selection found nothing to pick.
THEOREM PoolsInOrder == Spec => PoolsExhaustedInOrder
<1>1. QED
  BY Inductive, PoolStepHolds, PTL DEF Spec, PoolsExhaustedInOrder

----------------------------------------------------------------------------
(* The clients' promise.                                                   *)

\* What a step of r shows is its own client's only.
LEMMA ViewIsLocal ==
    ASSUME IInv, NEW r \in Req, OthersKeep(r), NEW v, View'[r] = v
    PROVE  View' = [View EXCEPT ![r] = v]
BY DEF OthersKeep, View

\* A step that shows nothing to a client.
LEMMA NothingShown ==
    ASSUME IInv, NEW r \in Req, OthersKeep(r), answer'[r] = answer[r],
           (pc[r] = "idle") <=> (pc'[r] = "idle")
    PROVE  UNCHANGED View
BY DEF OthersKeep, View

LEMMA PromiseInit == Init => Promise!Init
BY DEF Init, Promise!Init, View

LEMMA PromiseStep == IInv /\ [GwNext]_vars => [Promise!Next]_View
<1> SUFFICES ASSUME IInv, [GwNext]_vars PROVE [Promise!Next]_View
  OBVIOUS
<1> USE DEF Promise!Move, Promise!Whole, Promise!Ended
<1>a. Types
  BY DEF IInv
<1>b. \A r \in Req : Start(r) \/ Step(r) \/ Refuse(r) => OthersKeep(r)
  BY <1>a, StepIsLocal
<1>1. ASSUME NEW r \in Req, Start(r) PROVE Promise!Ask(r)
  <2>1. /\ pc[r] = "idle" /\ pc'[r] = "select"
        /\ answer[r] = "none" /\ answer' = answer
    BY <1>1, <1>a DEF Start, Types, IInv, Written
  <2>2. View[r] = "idle" /\ View'[r] = "pending"
    BY <2>1 DEF View
  <2>3. QED
    BY <1>1, <1>b, <2>2, ViewIsLocal DEF Promise!Ask
<1>2. ASSUME NEW r \in Req, Refuse(r) PROVE Promise!Refuse(r)
  <2>1. pc[r] = "idle" /\ pc'[r] = "answered" /\ answer'[r] = "refused"
    BY <1>2, <1>a DEF Refuse, Types
  <2>2. View[r] = "idle" /\ View'[r] = "refused"
    BY <2>1 DEF View
  <2>3. QED
    BY <1>2, <1>b, <2>2, ViewIsLocal DEF Promise!Refuse
<1>3. ASSUME NEW r \in Req, RespondDirect(r) PROVE Promise!Answer(r)
  <2>1. /\ pc[r] = "upstream" /\ pc'[r] = "streaming"
        /\ answer[r] = "none" /\ answer'[r] = "streaming"
    BY <1>3, <1>a DEF RespondDirect, Types, IInv, Written
  <2>2. View[r] = "pending" /\ View'[r] = "streaming"
    BY <2>1 DEF View
  <2>3. QED
    BY <1>3, <1>b, <2>2, ViewIsLocal DEF Promise!Answer, Step, Upstream
<1>4. ASSUME NEW r \in Req, StreamEnd(r) PROVE Promise!Answer(r)
  <2>1. /\ pc[r] = "streaming" /\ pc'[r] = "returned"
        /\ answer[r] = "streaming" /\ answer'[r] \in {"ok", "truncated"}
    BY <1>4, <1>a DEF StreamEnd, Types, IInv, Written
  <2>2. View[r] = "streaming" /\ View'[r] \in {"ok", "truncated"}
    BY <2>1 DEF View
  <2>3. QED
    BY <1>4, <1>b, <2>2, ViewIsLocal DEF Promise!Answer, Step
<1>5. ASSUME NEW r \in Req, Finish(r) PROVE Promise!Forget(r)
  <2>1. /\ pc[r] = "answered" /\ pc'[r] = "idle"
        /\ answer[r] \in Answer \ {"none", "streaming", "error"}
    BY <1>5, <1>a DEF Finish, Types, IInv, Written
  <2>2. View[r] \in Promise!Ended /\ View'[r] = "idle"
    BY <2>1 DEF View, Answer
  <2>3. QED
    BY <1>5, <1>b, <2>2, ViewIsLocal DEF Promise!Forget, Step
<1>6. ASSUME NEW r \in Req, LeavePool(r), OthersKeep(r),
             pc[r] \in {"select", "leaving"},
             pc[r] = "leaving" => code[r] # "ok"
      PROVE  UNCHANGED View \/ Promise!Answer(r)
  <2>1. answer[r] = "none"
    BY <1>6, AnsweredIsLate
  <2>2. CASE HasFallback(r)
    <3>1. answer' = answer /\ pc'[r] = "select"
      BY <1>6, <1>a, <2>2 DEF LeavePool, Types
    <3>2. QED
      BY <1>6, <3>1, NothingShown
  <2>3. CASE ~HasFallback(r)
    <3>1. answer'[r] = "exhausted" /\ pc'[r] = "answered"
      BY <1>6, <1>a, <2>3 DEF LeavePool, Types
    <3>2. View[r] = "pending" /\ View'[r] = "exhausted"
      BY <1>6, <2>1, <3>1 DEF View
    <3>3. QED
      BY <1>6, <3>2, ViewIsLocal DEF Promise!Answer
  <2>4. QED
    BY <2>2, <2>3
<1>7. ASSUME NEW r \in Req, Leave(r) PROVE UNCHANGED View \/ Promise!Answer(r)
  <2>1. pc[r] = "leaving" /\ Resolve(r) /\ OthersKeep(r)
    BY <1>7, <1>b DEF Leave, Step
  <2>2. CASE NextAttempt(r)
    <3>1. answer' = answer /\ pc'[r] = "select"
      BY <1>a, <2>2 DEF NextAttempt, Types
    <3>2. QED
      BY <2>1, <3>1, NothingShown
  <2>3. CASE LeavePool(r) /\ code[r] # "ok"
    BY <1>6, <2>1, <2>3
  <2>4. CASE Commit(r) /\ code[r] = "ok"
    <3>1. answer'[r] = answer[r] /\ pc'[r] = "answered"
      BY <1>a, <2>4 DEF Commit, Types
    <3>2. QED
      BY <2>1, <3>1, NothingShown
  <2>5. CASE Commit(r) /\ ~failed[r] /\ code[r] # "ok"
    <3>1. /\ answer[r] = "none" /\ code[r] \in {"client_error", "early"}
          /\ answer'[r] = code[r] /\ pc'[r] = "answered"
      BY <1>a, <2>1, <2>5 DEF Commit, Types, IInv, Written
    <3>2. View[r] = "pending" /\ View'[r] \in Promise!Whole
      BY <2>1, <3>1 DEF View
    <3>3. QED
      BY <2>1, <3>2, ViewIsLocal DEF Promise!Answer
  <2>6. QED
    BY <2>1, <2>2, <2>3, <2>4, <2>5 DEF Resolve, Continue, RetryBuffered
<1>8. ASSUME NEW r \in Req, SelectNothing(r)
      PROVE  UNCHANGED View \/ Promise!Answer(r)
  BY <1>6, <1>8, <1>b DEF SelectNothing, Step
<1>9. ASSUME NEW r \in Req,
             Select(r) \/ Begin(r) \/ RespondBuffered(r) \/ Report(r)
      PROVE  UNCHANGED View
  <2>1. answer' = answer /\ pc[r] # "idle" /\ pc'[r] # "idle"
    BY <1>9, <1>a DEF Select, Begin, RespondBuffered, Report, Types
  <2>2. OthersKeep(r)
    BY <1>9, <1>b DEF Step, Upstream
  <2>3. QED
    BY <2>1, <2>2, NothingShown
<1>10. ASSUME UNCHANGED <<pc, answer>> PROVE UNCHANGED View
  BY <1>10 DEF View
<1>11. QED
  BY <1>1, <1>2, <1>3, <1>4, <1>5, <1>7, <1>8, <1>9, <1>10
  DEF GwNext, Step, Upstream, Probe, BreakerTimer, vars, reqVars, Promise!Next

\* The proxy core implements the safety part of what the gateway promises to its
\* clients (ClientView): whatever upstreams, probes, breakers and other requests
\* do, a request gets one whole answer or one stream, and no upstream error.
THEOREM PromiseIsKept == Spec => Promise!SafeSpec
<1>1. QED
  BY Inductive, PromiseInit, PromiseStep, PTL DEF Spec, Promise!SafeSpec
=============================================================================
