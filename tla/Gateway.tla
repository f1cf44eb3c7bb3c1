------------------------------ MODULE Gateway ------------------------------
(***************************************************************************)
(* The proxy core of the gateway: concurrent requests run the retry loop   *)
(* of proxyWithRetry over the endpoints of a pool and then of its fallback *)
(* pool, each attempt through the endpoint's circuit breaker and into a    *)
(* decisionWriter, while health probes and breaker timers run beside them. *)
(***************************************************************************)
EXTENDS Naturals, Sequences, FiniteSets, Pool, Breaker

CONSTANTS
    Req,         \* requests in progress, one per serving goroutine
    Endpoint,    \* every configured endpoint
    PoolName,    \* the configured pools
    NoPool,      \* "this pool has no fallback"
    Model,       \* model names a router may have chosen
    NoModel,     \* the router chose no model
    Endpoints,   \* [PoolName -> sequence of endpoints]
    Strategy,    \* [PoolName -> load-balancing strategy]
    FallbackOf,  \* [PoolName -> PoolName or NoPool]
    Models,      \* [Endpoint -> the models it is known to serve]
    Decision,    \* routing outcomes a request may enter the proxy with
    MaxRetries,  \* retry.max_retries, raised to at least 1 by NewHandler
    Retryable    \* codes of retry.retryable_statuses a buffered answer may have

\* What decisionWriter.code holds.  "ok" is any 2xx/3xx, "error" any 5xx or
\* 429, "client_error" any other 4xx, "early" an informational status other
\* than 100 (the first one wins, whatever the final status is).
Code == {"none", "ok", "client_error", "early", "error"}

\* What the client has received.  "truncated" is a 2xx/3xx answer whose body
\* stopped early; "exhausted" is the gateway's own 503; "refused" any local
\* answer given before the proxy (authentication, router abort, no pool).
Answer == {"none", "streaming", "ok", "truncated", "client_error", "early",
           "error", "exhausted", "refused"}

ASSUME GatewayAssumption ==
    /\ IsFiniteSet(Req)
    /\ MaxRetries \in Nat \ {0}
    /\ PoolName # {}
    /\ Endpoints \in [PoolName -> Seq(Endpoint)]
    /\ \A p \in PoolName : Endpoints[p] # <<>>
    /\ Strategy \in [PoolName -> {"round_robin", "least_conn", "weighted"}]
    /\ FallbackOf \in [PoolName -> PoolName \cup {NoPool}]
    /\ Models \in [Endpoint -> SUBSET Model]
    /\ Decision \subseteq [pool : PoolName,
                            endpoint : Endpoint \cup {NoEndpoint},
                            model : Model \cup {NoModel}]
    /\ Decision # {}
    /\ Retryable \subseteq Code
    /\ NoPool \notin PoolName
    /\ NoModel \notin Model
    /\ NoEndpoint \notin Endpoint

VARIABLES
    pc,         \* where the request's goroutine is
    route,      \* the pool, endpoint and model its routing decision named
    fallback,   \* whether the loop has moved on to the fallback pool
    attempt,    \* the loop counter, from 0
    ep,         \* endpoint of the present attempt, kept as routing metadata
    code,       \* decisionWriter.code
    failed,     \* the present attempt returned an error
    answer,     \* what the client has received
    healthy,    \* Endpoint.healthy
    inflight,   \* Endpoint.inflight
    breaker     \* Endpoint.breaker

reqVars == <<pc, route, fallback, attempt, ep, code, failed, answer>>
vars == <<reqVars, healthy, inflight, breaker>>

PC == {"idle", "select", "picked", "upstream", "streaming", "returned",
       "leaving", "answered"}

TypeOK ==
    /\ pc \in [Req -> PC]
    /\ route \in [Req -> Decision]
    /\ fallback \in [Req -> BOOLEAN]
    /\ attempt \in [Req -> 0 .. MaxRetries - 1]
    /\ ep \in [Req -> Endpoint \cup {NoEndpoint}]
    /\ code \in [Req -> Code]
    /\ failed \in [Req -> BOOLEAN]
    /\ answer \in [Req -> Answer]
    /\ healthy \in [Endpoint -> BOOLEAN]
    /\ inflight \in [Endpoint -> Nat]
    /\ breaker \in [Endpoint -> [state : BreakerState, fails : Nat,
                                 admitted : SUBSET Req]]

NoRoute == CHOOSE d \in Decision : TRUE  \* placeholder while idle

Init ==
    /\ pc = [r \in Req |-> "idle"]
    /\ route = [r \in Req |-> NoRoute]
    /\ fallback = [r \in Req |-> FALSE]
    /\ attempt = [r \in Req |-> 0]
    /\ ep = [r \in Req |-> NoEndpoint]
    /\ code = [r \in Req |-> "none"]
    /\ failed = [r \in Req |-> FALSE]
    /\ answer = [r \in Req |-> "none"]
    /\ healthy = [e \in Endpoint |-> TRUE]
    /\ inflight = [e \in Endpoint |-> 0]
    /\ breaker = [e \in Endpoint |-> NewGeneration("closed")]

----------------------------------------------------------------------------
(* Selection                                                               *)

Available == {e \in Endpoint : healthy[e] /\ breaker[e].state # "open"}

CurrentPool(r) == IF fallback[r] THEN FallbackOf[route[r].pool] ELSE route[r].pool

\* The first attempt on each pool tries the routed endpoint; otherwise, or
\* when it is not available, the pool chooses, by model when there is one.
Candidates(r) ==
    LET p    == CurrentPool(r)
        eps  == Endpoints[p]
        want == SelectEndpoint(eps, route[r].endpoint, Available)
    IN  IF attempt[r] = 0 /\ want # {} THEN want
        ELSE IF route[r].model # NoModel
        THEN NextForModel(Strategy[p], eps, route[r].model, Available, inflight,
                          Models)
        ELSE Next(Strategy[p], eps, Available, inflight)

----------------------------------------------------------------------------
(* How the loop goes on after an attempt.                                  *)

\* Mutant: the loop runs once too often.
LastAttemptOffByOne(r) == attempt[r] = MaxRetries

LastAttempt(r) == attempt[r] = MaxRetries - 1

HasFallback(r) == ~fallback[r] /\ FallbackOf[route[r].pool] # NoPool

\* The next attempt on the same pool.
NextAttempt(r) ==
    /\ attempt' = [attempt EXCEPT ![r] = @ + 1]
    /\ pc' = [pc EXCEPT ![r] = "select"]
    /\ UNCHANGED <<fallback, code, answer>>

\* Mutant: the buffered error of the last attempt is committed.
LeavePoolWithError(r) ==
    /\ answer' = [answer EXCEPT ![r] = "error"]
    /\ pc' = [pc EXCEPT ![r] = "answered"]
    /\ UNCHANGED <<fallback, attempt, code>>

\* The loop over this pool is over: the fallback pool, or else the
\* gateway's own 503.
LeavePool(r) ==
    IF HasFallback(r)
    THEN /\ fallback' = [fallback EXCEPT ![r] = TRUE]
         /\ attempt' = [attempt EXCEPT ![r] = 0]
         /\ pc' = [pc EXCEPT ![r] = "select"]
         /\ UNCHANGED <<code, answer>>
    ELSE /\ code' = [code EXCEPT ![r] = "error"]
         /\ answer' = [answer EXCEPT ![r] = "exhausted"]
         /\ pc' = [pc EXCEPT ![r] = "answered"]
         /\ UNCHANGED <<fallback, attempt>>

\* Mutant: a failed attempt ends the loop over its pool.
ContinueElsewhere(r) == LeavePool(r)

Continue(r) == IF LastAttempt(r) THEN LeavePool(r) ELSE NextAttempt(r)

\* dw.commit() and return; a direct answer has been written already.
Commit(r) ==
    /\ answer' = [answer EXCEPT ![r] = IF code[r] = "ok" THEN @ ELSE code[r]]
    /\ pc' = [pc EXCEPT ![r] = "answered"]
    /\ UNCHANGED <<fallback, attempt, code>>

----------------------------------------------------------------------------
(* The steps of a request.                                                 *)

\* A request has passed authentication and routing and enters the loop.
Start(r) ==
    /\ pc[r] = "idle"
    /\ \E d \in Decision : route' = [route EXCEPT ![r] = d]
    /\ pc' = [pc EXCEPT ![r] = "select"]
    /\ UNCHANGED <<fallback, attempt, ep, code, failed, answer, healthy,
                   inflight, breaker>>

\* The request is answered before the proxy: a failed authentication, a
\* router that aborts it, a route without a pool.
Refuse(r) ==
    /\ pc[r] = "idle"
    /\ answer' = [answer EXCEPT ![r] = "refused"]
    /\ pc' = [pc EXCEPT ![r] = "answered"]
    /\ UNCHANGED <<route, fallback, attempt, ep, code, failed, healthy,
                   inflight, breaker>>

\* An endpoint is chosen, recorded as metadata, and the writer reset.
Select(r) ==
    /\ pc[r] = "select"
    /\ \E e \in Candidates(r) \ {NoEndpoint} :
          ep' = [ep EXCEPT ![r] = e]
    /\ code' = [code EXCEPT ![r] = "none"]
    /\ pc' = [pc EXCEPT ![r] = "picked"]
    /\ UNCHANGED <<route, fallback, attempt, failed, answer, healthy,
                   inflight, breaker>>

\* The pool returned nil: the loop over this pool breaks.
SelectNothing(r) ==
    /\ pc[r] = "select"
    /\ NoEndpoint \in Candidates(r)
    /\ LeavePool(r)
    /\ UNCHANGED <<route, ep, failed, healthy, inflight, breaker>>

\* ep.Inc(), then Execute: the breaker admits the call or refuses it.
Begin(r) ==
    LET b == breaker[ep[r]]
    IN  /\ pc[r] = "picked"
        /\ inflight' = [inflight EXCEPT ![ep[r]] = @ + 1]
        /\ IF Threshold = 0
           THEN /\ pc' = [pc EXCEPT ![r] = "upstream"]
                /\ UNCHANGED <<failed, breaker>>
           ELSE IF Admits(b)
           THEN /\ pc' = [pc EXCEPT ![r] = "upstream"]
                /\ breaker' = [breaker EXCEPT ![ep[r]] = BeforeRequest(b, r)]
                /\ UNCHANGED failed
           ELSE /\ pc' = [pc EXCEPT ![r] = "leaving"]
                /\ failed' = [failed EXCEPT ![r] = TRUE]
                /\ UNCHANGED breaker
        /\ UNCHANGED <<route, fallback, attempt, ep, code, answer, healthy>>

\* A 2xx/3xx header: the writer goes direct and the client has the status.
RespondDirect(r) ==
    /\ pc[r] = "upstream"
    /\ code' = [code EXCEPT ![r] = "ok"]
    /\ answer' = [answer EXCEPT ![r] = "streaming"]
    /\ pc' = [pc EXCEPT ![r] = "streaming"]
    /\ UNCHANGED <<route, fallback, attempt, ep, failed, healthy, inflight,
                   breaker>>

\* Anything else is buffered.  The body may break off (the proxy panics with
\* ErrAbortHandler, which is recovered into an error).  A transport error, an
\* attempt timeout and a client that has gone away all end in the proxy's 502:
\* "error", whatever the upstream did.
RespondBuffered(r) ==
    /\ pc[r] = "upstream"
    /\ \E c \in {"client_error", "early", "error"}, aborted \in BOOLEAN :
          /\ code' = [code EXCEPT ![r] = c]
          /\ failed' = [failed EXCEPT ![r] = c = "error" \/ aborted]
    /\ pc' = [pc EXCEPT ![r] = "returned"]
    /\ UNCHANGED <<route, fallback, attempt, ep, answer, healthy, inflight,
                   breaker>>

\* The direct body ends, or breaks off (upstream, timeout or client).
StreamEnd(r) ==
    /\ pc[r] = "streaming"
    /\ \E aborted \in BOOLEAN :
          /\ failed' = [failed EXCEPT ![r] = aborted]
          /\ answer' = [answer EXCEPT ![r] =
                           IF aborted THEN "truncated" ELSE "ok"]
    /\ pc' = [pc EXCEPT ![r] = "returned"]
    /\ UNCHANGED <<route, fallback, attempt, ep, code, healthy, inflight,
                   breaker>>

\* Mutant: a stream that is aborted by a panic is not reported.
TellBreakerUnlessAborted(r) ==
    IF failed[r] /\ code[r] = "ok" THEN UNCHANGED breaker
    ELSE breaker' = [breaker EXCEPT ![ep[r]] = AfterRequest(@, r, ~failed[r])]

\* Mutant: a client error counts as a failure of the endpoint.
TellBreakerOfClientErrors(r) ==
    breaker' = [breaker EXCEPT ![ep[r]] = AfterRequest(@, r, code[r] = "ok")]

TellBreaker(r) ==
    breaker' = [breaker EXCEPT ![ep[r]] = AfterRequest(@, r, ~failed[r])]

\* Execute reports the result to the breaker.
Report(r) ==
    /\ pc[r] = "returned"
    /\ TellBreaker(r)
    /\ pc' = [pc EXCEPT ![r] = "leaving"]
    /\ UNCHANGED <<route, fallback, attempt, ep, code, failed, answer,
                   healthy, inflight>>

\* Mutant: Dec runs inside Execute, so not for a call the breaker refuses.
DecIfExecuted(r) ==
    inflight' = [inflight EXCEPT ![ep[r]] = IF code[r] = "none" THEN @ ELSE @ - 1]

\* ep.Dec()
Dec(r) == inflight' = [inflight EXCEPT ![ep[r]] = @ - 1]

RetryBuffered(r) ==
    IF code[r] # "ok" /\ code[r] \in Retryable /\ ~LastAttempt(r)
    THEN NextAttempt(r) ELSE Commit(r)

\* Mutant: the error is looked at before the answer, so a broken stream is
\* retried.
ResolveErrorFirst(r) == IF failed[r] THEN Continue(r) ELSE RetryBuffered(r)

\* What the loop makes of the attempt: an error is retried unless the client
\* has the answer already, a buffered answer is retried when its status says so.
Resolve(r) ==
    IF failed[r] /\ code[r] # "ok" THEN Continue(r) ELSE RetryBuffered(r)

\* The deferred ep.Dec(), then the rest of the loop body.
Leave(r) ==
    /\ pc[r] = "leaving"
    /\ Dec(r)
    /\ failed' = [failed EXCEPT ![r] = FALSE]
    /\ Resolve(r)
    /\ UNCHANGED <<route, ep, healthy, breaker>>

\* The handler has recorded the audit entry and returns: its locals are gone.
Finish(r) ==
    /\ pc[r] = "answered"
    /\ pc' = [pc EXCEPT ![r] = "idle"]
    /\ route' = [route EXCEPT ![r] = NoRoute]
    /\ fallback' = [fallback EXCEPT ![r] = FALSE]
    /\ attempt' = [attempt EXCEPT ![r] = 0]
    /\ ep' = [ep EXCEPT ![r] = NoEndpoint]
    /\ code' = [code EXCEPT ![r] = "none"]
    /\ answer' = [answer EXCEPT ![r] = "none"]
    /\ UNCHANGED <<failed, healthy, inflight, breaker>>

----------------------------------------------------------------------------
(* The environment.                                                        *)

\* checkAll: a probe finds the endpoint's health changed.
Probe(e) ==
    /\ healthy' = [healthy EXCEPT ![e] = ~@]
    /\ UNCHANGED <<reqVars, inflight, breaker>>

\* The window of a closed breaker or the open time of an open one runs out.
BreakerTimer(e) ==
    /\ BreakerExpirable(breaker[e])
    /\ breaker' = [breaker EXCEPT ![e] = Expired(@)]
    /\ UNCHANGED <<reqVars, healthy, inflight>>

Upstream(r) == RespondDirect(r) \/ RespondBuffered(r)

Step(r) ==
    \/ Select(r) \/ SelectNothing(r) \/ Begin(r) \/ Upstream(r)
    \/ StreamEnd(r) \/ Report(r) \/ Leave(r) \/ Finish(r)

GwNext ==
    \/ \E r \in Req : Start(r) \/ Step(r) \/ Refuse(r)
    \/ \E e \in Endpoint : Probe(e) \/ BreakerTimer(e)

Spec == Init /\ [][GwNext]_vars

\* A goroutine that can run does; upstream answers or the attempt times out
\* (validate gives every endpoint a timeout).  Clients, probes and timers
\* promise nothing.
FairSpec == Spec /\ \A r \in Req : WF_vars(Step(r))

----------------------------------------------------------------------------
(* Properties                                                              *)

\* The requests between ep.Inc() and ep.Dec() of endpoint e.
Busy(e) ==
    {r \in Req :
        ep[r] = e /\ pc[r] \in {"upstream", "streaming", "returned", "leaving"}}

\* The in-flight counter that least_conn and /health read is the number of
\* requests really on the endpoint, whatever way each attempt ends: refused
\* by the breaker, failed, aborted by a panic, retried or answered.
InflightExact == \A e \in Endpoint : inflight[e] = Cardinality(Busy(e))

\* A call that a breaker counts as admitted is running on that endpoint: no
\* exit path of Execute leaks the single trial slot of a half-open breaker,
\* which would shut the endpoint off for ever (half-open has no timer).
AdmittedAreRunning ==
    \A e \in Endpoint : \A r \in breaker[e].admitted :
        ep[r] = e /\ pc[r] \in {"upstream", "streaming", "returned"}

\* A half-open breaker lets one trial through at a time, an open one none,
\* and a closed one has not reached the threshold.
BreakerShields ==
    \A e \in Endpoint :
        LET b == breaker[e]
        IN  /\ b.state = "open" => b.admitted = {}
            /\ b.state = "half_open" =>
                  \A r, s \in b.admitted : r = s
            /\ b.state # "closed" => b.fails = 0
            /\ b.fails > 0 => b.fails < Threshold

\* r's present step reports a failed (successful) call to e's breaker.
Reports(r, e, failure) ==
    /\ r \in breaker[e].admitted
    /\ pc[r] = "returned" /\ pc'[r] = "leaving"
    /\ failed[r] = failure

\* In one step a breaker opens only on a failure, and closes only on the
\* success, of a call its present generation admitted.
BreakerStep ==
    \A e \in Endpoint :
        LET from == breaker[e].state
            to   == breaker'[e].state
        IN  from # to =>
              \/ from = "open" /\ to = "half_open"
              \/ from # "open" /\ to = "open"
                    /\ \E r \in Req : Reports(r, e, TRUE)
              \/ from = "half_open" /\ to = "closed"
                    /\ \E r \in Req : Reports(r, e, FALSE)

\* A request still running from before the breaker tripped or recovered can
\* neither open nor close it, however late it ends.
BreakerMoves == [][BreakerStep]_vars

\* A step of a request whose client has something goes back to no earlier part
\* of the loop.
AnsweredStep ==
    \A r \in Req :
        answer[r] # "none" /\ pc'[r] # "idle" =>
            /\ pc'[r] \notin {"select", "picked", "upstream"}
            /\ UNCHANGED <<attempt[r], fallback[r], ep[r]>>

\* Once anything has gone to the client the request makes no other attempt:
\* a stream that breaks off is not retried into the same response.
NoRetryAfterAnswer == [][AnsweredStep]_vars

\* The step in which r's loop gives up the pool it is on.
GivesUpPool(r) ==
    \/ ~fallback[r] /\ fallback'[r]
    \/ answer[r] = "none" /\ answer'[r] = "exhausted"

\* A pool is given up after its last attempt has failed; the one exception is
\* a weighted pool whose selection races with a change of availability.
PoolStep ==
    \A r \in Req : GivesUpPool(r) =>
        /\ \/ pc[r] = "leaving" /\ failed[r] /\ LastAttempt(r)
           \/ pc[r] = "select" /\ Strategy[CurrentPool(r)] = "weighted"
        /\ answer'[r] = "exhausted" => ~HasFallback(r)

\* The fallback pool is tried, and the gateway's own 503 sent, only after
\* max_retries failed attempts on the pool before it.
PoolsExhaustedInOrder == [][PoolStep]_vars

\* Every trial of a half-open breaker ends and decides its state.
TrialEnds ==
    \A e \in Endpoint :
        (breaker[e].state = "half_open" /\ breaker[e].admitted # {})
            ~> breaker[e].state # "half_open"

\* What the client of each request can see.
View == [r \in Req |-> IF pc[r] = "idle" THEN "idle"
                       ELSE IF answer[r] = "none" THEN "pending"
                       ELSE answer[r]]

Promise == INSTANCE ClientView WITH view <- View

\* The proxy keeps its promise to the clients: every request that is let in is
\* answered once, and no upstream's 5xx or 429 is passed on.
KeepsPromise == Promise!Spec
============================================================================
