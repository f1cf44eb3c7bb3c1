----------------------------- MODULE Projection -----------------------------
(***************************************************************************)
(* What one event does to the smart router's state of an episode           *)
(* (projectEpisodeEvent, plugins/smartrouter/episode.go), and the next     *)
(* capability derived from the state.                                      *)
(*                                                                         *)
(* An event is a record.  Its text is abstracted to what the projection    *)
(* tells apart: a rule id for the routing reason it is found in, a value   *)
(* for a hypothesis or a failure fingerprint, a target for a path.         *)
(***************************************************************************)
EXTENDS Integers, SequencesExt

CONSTANTS
    RecentEvents,     \* events kept in the recent window
    PressureLimit,    \* length_window_threshold
    BlockedAfter,     \* calls without progress (defaultEpisodeNoProgress...)
    CandidateAfter,   \* implementation steps that make a candidate
    IdleAfter,        \* idle calls after which it must be delivered
    FloorLimit,       \* delivery reminders before recovery
    ApplyLimit,       \* applications of an analysis before recovery
    StallLimit,       \* stalls before recovery
    RepeatLimit       \* times the same failure is seen before recovery

ASSUME ProjectionAssumption ==
    {RecentEvents, PressureLimit, BlockedAfter, CandidateAfter, IdleAfter,
     FloorLimit, ApplyLimit, StallLimit, RepeatLimit} \subseteq Nat \ {0}

\* The rules of safe control whose calls are counted.
FloorRule == "episode_delivery_candidate_floor"
ApplyRule == "episode_analysis_progress_application"
ApplyRecoveryRule == "episode_analysis_progress_application_recovery"

------------------------------------------------------------------------------
(* Events *)

\* An event of which nothing is known but its kind; 0 and "" mean absent.
Blank(kind) ==
    [id |-> 0, kind |-> kind,
     target |-> "",        \* of a file: delivery, workspace, paths
     outcome |-> "",       \* call: stop, length, error, incomplete;
                           \* test_run: passed, failed
     validates |-> FALSE,  \* test_run: isOutputValidationEvent
     failed |-> 0,         \* failures counted
     print |-> "",         \* failure fingerprint or command
     good |-> FALSE,       \* verifier: reward > 0; analysis: a new fact
     action |-> "", rule |-> "", hyp |-> "", cost |-> 0, model |-> "",
     source |-> "",
     effective |-> FALSE,  \* effective_progress, not strong
     adjusted |-> FALSE,   \* the call's budget was adjusted
     tier |-> "", at |-> 0]

IsCall(e) == e.kind = "llm_call"
IsFile(e) == e.kind \in {"file_written", "file_modified"}
FromRule(e, rule) == IsCall(e) /\ e.rule = rule
IsLength(e) == e.outcome = "length"

IsDelivery(e) == IsFile(e) /\ e.target = "delivery"

IsImplementation(e) ==
    \/ IsFile(e) /\ e.target = "workspace"
    \/ e.kind = "file_modified" /\ e.target = "paths"

IsStrong(e) ==
    \/ e.kind = "test_passed" /\ e.failed = 0
    \/ e.kind \in {"verifier_result", "analysis_progress"} /\ e.good

IsOutputValidation(e) == e.kind = "test_run" /\ e.validates

IsCandidate(e) ==
    \/ e.effective
    \/ e.kind = "file_modified" /\ e.target = "paths"
    \/ e.kind = "file_written" /\ e.target \in {"delivery", "workspace"}
    \/ IsOutputValidation(e) /\ e.outcome = "passed"

Frontier(e) == IF e.failed > 0 THEN e.failed ELSE 1

------------------------------------------------------------------------------
(* The state *)

Empty ==
    [version |-> 0, calls |-> 0, cost |-> 0, model |-> "", action |-> "",
     finish |-> "", lengthStreak |-> 0, lengthSince |-> 0, errors |-> 0,
     callsSince |-> 0, appliedSince |-> 0, recoveredSince |-> 0, stalls |-> 0,
     stallsSince |-> 0, files |-> 0, deliveryFiles |-> 0, delivered |-> 0,
     readiness |-> "none", reward |-> FALSE, testRuns |-> 0, passed |-> 0,
     failed |-> 0, noProgress |-> 0, active |-> FALSE, exploration |-> 0,
     explorationSince |-> 0, explorationSinceReplan |-> 0,
     explorationSinceHyp |-> 0, implementation |-> 0, validation |-> 0,
     delivery |-> 0, strong |-> 0, candidate |-> 0, eventsSince |-> 0,
     replans |-> 0, replan |-> 0, callsSinceReplan |-> 0, hyp |-> "",
     hypEvent |-> 0, hypStatus |-> "", hypCount |-> 0, callsSinceHyp |-> 0,
     route |-> 0, routeLabel |-> "", routeEvents |-> 0, print |-> "",
     samePrint |-> 0, frontier |-> 0, progressEvent |-> 0,
     progressKind |-> "", recent |-> <<>>, severity |-> "none",
     capability |-> "", reason |-> "", hint |-> ""]

\* What became ready is never unready again: "none" is left for good.
Touched(s) ==
    \/ s.delivery > 0 \/ s.implementation > 0 \/ s.deliveryFiles > 0
    \/ s.readiness # "none"
    \/ s.frontier > 0

AppliesToTarget(s, e) == IsOutputValidation(e) \/ Touched(s)

MarkStale(s) ==
    IF s.hypStatus \in {"open", "pending"}
    THEN [s EXCEPT !.hypStatus = "stale"] ELSE s

MarkProgressed(s) ==
    IF s.hypStatus \in {"open", "pending", "stale"}
    THEN [s EXCEPT !.hypStatus = "progressed", !.callsSinceHyp = 0,
                   !.explorationSinceHyp = 0]
    ELSE s

------------------------------------------------------------------------------
(* Calls, and the outcome of the last one *)

\* A call whose predecessor left no event behind closes its window: nothing
\* came of it.
CloseRoute(s) ==
    IF s.route = 0 \/ s.routeLabel # "pending" \/ s.routeEvents # 0 THEN s
    ELSE LET closed == [s EXCEPT !.routeLabel = "no_progress", !.routeEvents = 1]
         IN IF s.route = s.hypEvent THEN MarkStale(closed) ELSE closed

OpenRoute(s, e) ==
    [CloseRoute(s) EXCEPT !.route = e.id, !.routeLabel = "pending",
                          !.routeEvents = 0]

StartReplan(s, e) ==
    [s EXCEPT !.replans = @ + 1, !.replan = e.id, !.callsSinceReplan = 0,
              !.explorationSinceReplan = 0, !.hypEvent = 0, !.hyp = "",
              !.hypStatus = "pending", !.callsSinceHyp = 0,
              !.explorationSinceHyp = 0]

\* The strategy a call after a replan names; none while replanning/stopping.
Hypothesis(e) ==
    IF e.action \in {"freeze_or_replan", "stop_trial"} THEN "" ELSE e.hyp

RecordHypothesis(s, e) ==
    LET h == Hypothesis(e)
    IN IF s.hypEvent # 0 /\ s.hypStatus \in {"open", "stale"}
       THEN IF h = "" \/ h = s.hyp THEN s
            ELSE [s EXCEPT !.hypCount = @ + 1, !.hyp = h, !.hypEvent = e.id]
       ELSE IF h = "" THEN s
            ELSE [s EXCEPT !.hypCount = IF h = s.hyp THEN @ ELSE @ + 1,
                           !.hyp = h, !.hypEvent = e.id, !.hypStatus = "open",
                           !.callsSinceHyp = 0, !.explorationSinceHyp = 0]

CountCall(s, e) ==
    [s EXCEPT
        !.calls = @ + 1, !.cost = @ + e.cost, !.model = e.model,
        !.action = e.action, !.finish = e.outcome,
        !.lengthStreak = IF IsLength(e) THEN @ + 1
                         ELSE IF e.outcome = "error" THEN @ ELSE 0,
        !.lengthSince = IF IsLength(e) THEN @ + 1 ELSE @,
        !.errors = IF e.outcome = "error" THEN @ + 1 ELSE 0,
        !.callsSince = @ + 1,
        !.appliedSince = IF FromRule(e, ApplyRule) THEN @ + 1 ELSE @,
        !.recoveredSince = IF FromRule(e, ApplyRecoveryRule) THEN @ + 1 ELSE @]

Call(s, e) ==
    LET c == OpenRoute(CountCall(s, e), e)
    IN IF e.action = "freeze_or_replan" THEN StartReplan(c, e)
       ELSE IF c.replan = 0 THEN c
       ELSE RecordHypothesis(
                [c EXCEPT !.callsSinceReplan = @ + 1,
                          !.callsSinceHyp = IF c.hypEvent # 0 THEN @ + 1 ELSE @],
                e)

\* What an event says of the route before it: a label, and whether it speaks
\* against the hypothesis in force.
RouteOutcome(e) ==
    CASE e.kind = "tool_call"        -> <<"tool_call", FALSE>>
      [] e.kind = "execution_stall"  -> <<"execution_stall", TRUE>>
      [] IsFile(e) /\ e.target = "delivery" -> <<"delivery_changed", FALSE>>
      [] IsFile(e) /\ e.target \in {"workspace", "paths"} ->
                                        <<"workspace_changed", FALSE>>
      [] e.kind = "test_run" /\ e.outcome = "passed" -> <<"test_passed", FALSE>>
      [] e.kind = "test_run" /\ e.outcome = "failed" -> <<"test_failed", TRUE>>
      [] e.kind = "test_passed"      -> <<"test_passed", FALSE>>
      [] e.kind = "test_failed"      -> <<"test_failed", TRUE>>
      [] e.kind = "verifier_result" /\ e.good -> <<"verifier_passed", FALSE>>
      [] e.kind = "verifier_result" /\ ~e.good -> <<"verifier_failed", TRUE>>
      [] e.kind = "analysis_progress" -> <<"analysis_progress", FALSE>>
      [] e.kind = "no_progress"      -> <<"no_progress", TRUE>>
      [] e.kind = "run_exception"    -> <<"run_exception", TRUE>>
      [] OTHER                       -> <<"", FALSE>>

RecordOutcome(s, e) ==
    LET o == RouteOutcome(e)
        t == [s EXCEPT !.routeLabel = o[1], !.routeEvents = @ + 1]
    IN IF IsCall(e) \/ s.calls = 0 \/ o[1] = "" THEN s
       ELSE IF o[2] /\ s.hypEvent # 0 THEN MarkStale(t) ELSE t

------------------------------------------------------------------------------
(* Files, tests and verdicts *)

RecordFailure(s, e) ==
    IF e.print = "" THEN s
    ELSE [s EXCEPT
            !.print = e.print,
            !.samePrint = IF e.print = s.print
                             /\ (s.frontier = 0 \/ Frontier(e) >= s.frontier)
                          THEN @ + 1 ELSE 1,
            !.frontier = Frontier(e)]

File(s, e) ==
    LET w == [s EXCEPT !.files = @ + 1,
                       !.deliveryFiles = IF IsDelivery(e) THEN @ + 1 ELSE @,
                       !.delivered = IF IsDelivery(e) THEN e.id ELSE @]
    IN IF IsDelivery(e) \/ IsImplementation(e)
       THEN [w EXCEPT !.readiness = "delivery_candidate", !.reward = FALSE]
       ELSE w

TestRun(s, e) ==
    LET on == AppliesToTarget(s, e)
        r == [s EXCEPT !.testRuns = @ + 1]
    IN CASE e.outcome = "passed" ->
              [r EXCEPT !.passed = @ + 1,
                        !.readiness = IF on THEN "validation_passed" ELSE @]
         [] e.outcome = "failed" ->
              RecordFailure(
                [r EXCEPT !.failed = @ + 1,
                          !.readiness = IF on THEN "validation_failed" ELSE @,
                          !.reward = IF on THEN FALSE ELSE @], e)
         [] OTHER -> r

ByKind(s, e) ==
    CASE IsCall(e) -> Call(s, e)
      [] e.kind = "execution_stall" ->
            MarkStale([s EXCEPT !.stalls = @ + 1, !.stallsSince = @ + 1])
      [] IsFile(e) -> File(s, e)
      [] e.kind = "test_run" -> TestRun(s, e)
      [] e.kind = "test_passed" ->
            [s EXCEPT !.passed = @ + 1, !.readiness = "validation_passed"]
      [] e.kind = "test_failed" ->
            RecordFailure([s EXCEPT !.failed = @ + 1, !.reward = FALSE,
                                    !.readiness = "validation_failed"], e)
      [] e.kind = "verifier_result" ->
            [s EXCEPT !.reward = e.good,
                      !.readiness = IF e.good THEN "verifier_passed"
                                    ELSE "verifier_failed"]
      [] e.kind = "no_progress" ->
            MarkStale([s EXCEPT !.noProgress = @ + 1, !.active = TRUE])
      [] OTHER -> s

------------------------------------------------------------------------------
(* Progress *)

\* Of an event, given the state before it: which kinds of progress it is.
Validates(s, e) ==
    \/ e.kind \in {"test_passed", "test_failed"}
    \/ e.kind = "test_run" /\ e.outcome = "passed" /\ AppliesToTarget(s, e)

Explores(s, e) ==
    \/ e.kind = "tool_call"
    \/ IsFile(e) /\ ~IsDelivery(e) /\ ~IsImplementation(e)
    \/ e.kind = "test_run" /\ ~AppliesToTarget(s, e)

Progresses(s, e) ==
    \/ IsStrong(e) \/ IsDelivery(e) \/ IsImplementation(e)
    \/ e.kind = "test_run" /\ Validates(s, e)

\* effective_progress as it is written into the event that is kept.
Annotated(s, e) ==
    [e EXCEPT !.effective =
        ~IsStrong(e) /\ (IsDelivery(e) \/ IsImplementation(e) \/ Validates(s, e))]

CountProgress(s, t, e) ==
    LET x == IF Explores(s, e) THEN 1 ELSE 0
    IN [t EXCEPT
          !.exploration = @ + x, !.explorationSince = @ + x,
          !.explorationSinceReplan = IF t.replan # 0 THEN @ + x ELSE @,
          !.explorationSinceHyp = IF t.hypEvent # 0 THEN @ + x ELSE @,
          !.implementation = IF IsImplementation(e) THEN @ + 1 ELSE @,
          !.validation = IF Validates(s, e) THEN @ + 1 ELSE @,
          !.delivery = IF IsDelivery(e) THEN @ + 1 ELSE @]

ClearsFrontier(s, e) ==
    \/ e.kind \in {"test_passed", "verifier_result"} /\ IsStrong(e)
    \/ e.kind = "test_run" /\ Validates(s, e)

\* Progress ends every count "since".
Reset(s, t, e) ==
    LET c == IF ClearsFrontier(s, e)
             THEN [t EXCEPT !.print = "", !.samePrint = 0, !.frontier = 0]
             ELSE t
    IN MarkProgressed(
        [c EXCEPT !.strong = IF IsStrong(e) THEN @ + 1 ELSE @,
                  !.candidate = IF IsStrong(e) THEN @ ELSE @ + 1,
                  !.eventsSince = 0, !.callsSince = 0, !.lengthSince = 0,
                  !.explorationSince = 0, !.stallsSince = 0,
                  !.appliedSince = 0, !.recoveredSince = 0, !.replan = 0,
                  !.callsSinceReplan = 0, !.explorationSinceReplan = 0,
                  !.lengthStreak = 0, !.active = FALSE,
                  !.progressEvent = e.id, !.progressKind = e.kind])

------------------------------------------------------------------------------
(* What the state calls for *)

CountIn(seq, P(_)) == Cardinality({i \in DOMAIN seq : P(seq[i])})

RecentLength(s) == CountIn(s.recent, IsLength)

IsError(e) ==
    \/ IsCall(e) /\ e.outcome = "error"
    \/ e.kind \in {"run_exception", "execution_stall"}

Severity(s) ==
    LET pressure == RecentLength(s) + CountIn(s.recent, IsError)
        progress == \E i \in DOMAIN s.recent :
                        IsStrong(s.recent[i]) \/ IsCandidate(s.recent[i])
    IN CASE s.callsSince >= BlockedAfter -> "blocked"
         [] s.callsSince < BlockedAfter /\ s.active -> "stale"
         [] s.callsSince < BlockedAfter /\ ~s.active ->
                IF pressure >= PressureLimit /\ ~progress THEN "stale"
                ELSE IF pressure > 0 THEN "watch" ELSE "none"

NoCandidate(s) == s.candidate = 0 /\ s.strong = 0

RouteLabel(s) ==
    IF s.route = 0 /\ s.routeLabel = "" THEN "none"
    ELSE IF s.routeLabel = "" THEN "pending" ELSE s.routeLabel

ApplyTruncated(s) ==
    /\ s.action = "hypothesis_apply" /\ s.finish = "length" /\ NoCandidate(s)
    /\ RouteLabel(s) \in {"pending", "no_progress", "none"}

Stalled(s) == s.stallsSince >= StallLimit

Applied(s) ==
    s.progressKind = "analysis_progress" /\ s.appliedSince >= ApplyLimit

NeedsDelivery(s) ==
    /\ s.readiness = "delivery_candidate"
    /\ s.deliveryFiles = 0 /\ s.delivery = 0
    /\ s.validation = 0 /\ s.testRuns = 0
    /\ s.implementation >= CandidateAfter
    /\ \/ s.callsSince >= IdleAfter
       \/ s.explorationSince >= IdleAfter
       \/ s.lengthSince >= 2

FloorExhausted(s) ==
    CountIn(s.recent, LAMBDA e : FromRule(e, FloorRule)) >= FloorLimit

NeedsApplication(s) ==
    /\ s.replan # 0 /\ s.hyp # "" /\ s.action # "hypothesis_apply"
    /\ s.hypStatus \in {"open", "stale"}
    /\ NoCandidate(s)

\* deriveNextCapability: <<capability, reason, budget action>>, the first rule
\* that applies.
Recover(reason) == <<"premium_recover", reason, "premium_recover">>
Assess(reason) == <<"premium_assess", reason, "premium_reason">>
Execute(reason) == <<"cheap_execute", reason, "cheap_execute">>
Probe(reason) == <<"cheap_probe", reason, "cheap_probe">>

\* The reason names the severity.
NoProgressReason ==
    [stale |-> "episode_no_progress_stale",
     blocked |-> "episode_no_progress_blocked"]

ByReadiness ==
    [verifier_failed |-> Recover("verifier_failed_current_delivery"),
     validation_failed |-> Recover("validation_failed_current_delivery"),
     verifier_passed |-> Assess("verifier_passed_current_delivery"),
     validation_passed |-> Assess("validation_passed_assess_hidden_gap")]

ByRoute ==
    LET negative == Recover("last_route_outcome_negative")
        changed == Execute("last_route_changed_files_needs_validation")
    IN [verifier_failed |-> negative, run_exception |-> negative,
        no_progress |-> negative, execution_stall |-> negative,
        test_failed |-> Recover("last_route_validation_failed"),
        verifier_passed |-> Assess("last_route_verifier_passed"),
        test_passed |-> Assess("last_route_validation_passed"),
        delivery_changed |-> changed, workspace_changed |-> changed,
        analysis_progress |-> Execute("analysis_progress_needs_application")]

NextCapability(s) ==
    IF s.version = 0 THEN <<"unknown", "empty_episode_state", "">>
    ELSE IF s.print # "" /\ s.samePrint >= RepeatLimit
    THEN Recover("repeated_test_failure_frontier")
    ELSE IF s.readiness \in DOMAIN ByReadiness THEN ByReadiness[s.readiness]
    ELSE IF ApplyTruncated(s) THEN Recover("hypothesis_apply_length_truncated")
    ELSE IF Stalled(s) THEN Recover("execution_stall_needs_recovery")
    ELSE IF Applied(s) /\ s.recoveredSince = 0
    THEN Recover("analysis_progress_application_exhausted")
    ELSE IF NeedsDelivery(s)
    THEN IF FloorExhausted(s) THEN Recover("delivery_candidate_floor_exhausted")
         ELSE Execute("delivery_candidate_needs_delivery")
    ELSE IF NeedsApplication(s)
    THEN <<"cheap_execute", "replan_hypothesis_needs_validation",
           "hypothesis_apply">>
    ELSE IF s.severity \in {"blocked", "stale"} \/ s.active
    THEN Recover(NoProgressReason[s.severity])
    ELSE IF s.readiness = "delivery_candidate"
    THEN Execute("target_changed_needs_validation")
    ELSE IF Applied(s) /\ s.recoveredSince > 0
    THEN Probe("analysis_progress_recovery_awaiting_outcome")
    ELSE IF s.progressKind = "analysis_progress"
    THEN Execute("analysis_progress_needs_application")
    ELSE IF RouteLabel(s) \in DOMAIN ByRoute THEN ByRoute[RouteLabel(s)]
    ELSE IF s.severity = "watch" THEN Probe("watching_output_pressure")
    ELSE Probe("no_blocking_outcome")

------------------------------------------------------------------------------
Keep(s, e) ==
    [s EXCEPT !.recent = LET r == Append(@, e)
                         IN IF Len(r) > RecentEvents THEN Tail(r) ELSE r]

Derive(s) ==
    LET t == [s EXCEPT !.severity = Severity(s)]
        n == NextCapability(t)
    IN [t EXCEPT !.capability = n[1], !.reason = n[2], !.hint = n[3]]

Project(s, e) ==
    LET k == ByKind([s EXCEPT !.version = @ + 1], e)
        \* the outcome is judged on the state the event has already changed
        t == CountProgress(s, RecordOutcome(k, e), e)
        u == IF Progresses(s, e) THEN Reset(s, t, e)
             ELSE [t EXCEPT !.eventsSince = @ + 1]
    IN Derive(Keep(u, Annotated(s, e)))
=============================================================================
