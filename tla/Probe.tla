------------------------------- MODULE Probe -------------------------------
(***************************************************************************)
(* The probe of a running gateway, scripts/run_safe_control_probe.py: what *)
(* it posts to an episode and asks of it, and what it expects of the       *)
(* routes and of the state, against the router as SafeControl and          *)
(* Projection have it.                                                     *)
(*                                                                         *)
(* The script runs its scenarios one after the other on episodes of their  *)
(* own, once, without a failure.  Here any of them may run, and anything   *)
(* posted may be delivered again at any time: POST /v1/episode-events is   *)
(* retried by its other clients.                                           *)
(***************************************************************************)
EXTENDS SafeControl

VARIABLES
    scenario,  \* the one that runs
    at,        \* the step it does next
    state,     \* the router's state of the episode
    control,   \* what safe control remembers of it
    route,     \* the last route
    seen       \* ids of the events projected

vars == <<scenario, at, state, control, route, seen>>

------------------------------------------------------------------------------
(* Steps *)

Post(e) == [do |-> "post", event |-> e]
Ask(m, want) == [do |-> "ask", message |-> m, want |-> want]
See(want) == [do |-> "see", want |-> want]

Posts(n, e) == [i \in 1 .. n |-> Post(e)]

Called(action, outcome) ==
    [Blank("llm_call") EXCEPT !.action = action, !.outcome = outcome]
Truncated == Called("cheap_execute", "length")

Plain == Message({})
\* The calls posted are more than 30 seconds old.
Old(m) == [m EXCEPT !.young = FALSE]

\* What the probe compares of a route.
Routed(rule, action) ==
    [source |-> "safe-control", rule |-> rule, action |-> action,
     strong |-> Strongest(action)]
From(source, strong) == [source |-> source, strong |-> strong]
Refused(rule) == [rule |-> rule, action |-> "stop_trial", abort |-> TRUE]
Of(w, budget) == w @@ [budget |-> budget]

\* Every field of want is as wanted.
Agrees(want, got) == \A f \in DOMAIN want : got[f] = want[f]

------------------------------------------------------------------------------
(* The cases of one session *)

Failed == [Plain EXCEPT !.error = "relay"]

Cases ==
    <<Ask(Message({"read"}), From("safe-control", FALSE)),
      Ask(Message({"test"}), From("safe-control", FALSE)),
      Ask(Message({"format"}), From("safe-control", FALSE)),
      Ask(Failed, From("decision", FALSE)),
      Ask(Failed, From("safe-control", TRUE)),
      Ask(Message({"contradiction"}), From("safe-control", TRUE)),
      Ask(Plain, Routed("premium_cooldown", "cheap_probe")),
      Ask(Message({"completion"}), From("guardrail", TRUE)),
      Ask(Message({"implement"}), From("decision", TRUE))>>

------------------------------------------------------------------------------
(* The episodes *)

Pressed ==
    Posts(2, Truncated)
    \o <<See([version |-> 2, calls |-> 2, lengthStreak |-> 2,
              severity |-> "stale", routeLabel |-> "pending"])>>

LengthPressure ==
    Pressed
    \o <<Ask(Message({"test"}),
             Of(Routed("episode_no_progress_recovery", "premium_recover"),
                <<4096, 180000>>)),
         See([version |-> 3]),
         Post([Blank("test_run") EXCEPT !.outcome = "passed",
                                        !.validates = TRUE]),
         See([version |-> 4, route |-> 4, routeLabel |-> "test_passed",
              routeEvents |-> 1, capability |-> "premium_assess",
              hint |-> "premium_reason",
              reason |-> "validation_passed_assess_hidden_gap"])>>

FailureFrontier ==
    Posts(2, [Blank("test_run") EXCEPT !.outcome = "failed", !.print = "relay",
                                       !.failed = 2])
    \o <<See([version |-> 2, samePrint |-> 2, frontier |-> 2,
              print |-> "relay"]),
         Ask(Plain, Routed("episode_repeated_failure_recovery",
                           "premium_recover")),
         Ask(Plain, From("decision", FALSE))>>

Delivered(kind) == [Blank(kind) EXCEPT !.target = "delivery"]
Verified ==
    <<Post(Delivered("file_written")),
      Post([Blank("test_run") EXCEPT !.outcome = "passed"]),
      Post([Blank("verifier_result") EXCEPT !.good = TRUE])>>
IsGuarded ==
    [source |-> "guardrail", action |-> "completion_guardrail",
     strong |-> TRUE]

CompletionReady ==
    Verified
    \o <<See([version |-> 3, readiness |-> "verifier_passed",
              deliveryFiles |-> 1, passed |-> 1, reward |-> TRUE,
              capability |-> "premium_assess", hint |-> "premium_reason",
              reason |-> "verifier_passed_current_delivery"]),
         Ask(Plain, Routed("episode_verifier_assessment_floor",
                           "premium_reason")),
         Ask(Message({"completion"}), IsGuarded)>>

CompletionRegress ==
    Verified
    \o <<Post(Delivered("file_modified")),
         See([version |-> 4, readiness |-> "delivery_candidate",
              deliveryFiles |-> 2, reward |-> FALSE,
              capability |-> "cheap_execute", hint |-> "cheap_execute",
              progressKind |-> "file_modified",
              reason |-> "target_changed_needs_validation"]),
         Ask(Message({"completion"}), From("guardrail", TRUE))>>

Undelivered ==
    Posts(6, [Blank("file_written") EXCEPT !.target = "workspace"])
    \o Posts(3, Called("cheap_probe", "stop"))
    \o <<See([version |-> 9, readiness |-> "delivery_candidate",
              implementation |-> 6, deliveryFiles |-> 0, validation |-> 0,
              callsSince |-> 3, capability |-> "cheap_execute",
              reason |-> "delivery_candidate_needs_delivery"])>>

DeliveryFloorReached ==
    Undelivered
    \o <<Ask(Plain, Routed(FloorRule, "cheap_execute")),
         Post([Called("cheap_execute", "stop") EXCEPT !.rule = FloorRule]),
         See([capability |-> "premium_recover",
              reason |-> "delivery_candidate_floor_exhausted"]),
         Ask(Plain, Routed("episode_delivery_candidate_recovery_floor",
                           "premium_recover"))>>

HypothesisApply ==
    <<Post(Called("freeze_or_replan", "stop")),
      Post([Truncated EXCEPT !.hyp = "A"]),
      Post([Called("cheap_probe", "stop") EXCEPT !.hyp = "B"]),
      Post([Called("cheap_probe", "stop") EXCEPT !.hyp = "B"]),
      See([replans |-> 1, hypCount |-> 2, hypEvent |-> 3, hypStatus |-> "stale",
           callsSinceReplan |-> 3, capability |-> "cheap_execute",
           hint |-> "hypothesis_apply",
           reason |-> "replan_hypothesis_needs_validation"]),
      Ask(Plain, Of(Routed("episode_replan_hypothesis_apply",
                           "hypothesis_apply"), <<4096, 90000>>))>>

HypothesisCut ==
    <<Post(Called("freeze_or_replan", "stop")),
      Post([Called("premium_reason", "stop") EXCEPT !.hyp = "A"]),
      Post(Called("cheap_probe", "stop")),
      Post(Called("hypothesis_apply", "length")),
      See([capability |-> "premium_recover", hint |-> "premium_recover",
           reason |-> "hypothesis_apply_length_truncated",
           action |-> "hypothesis_apply", finish |-> "length"])>>

HypothesisLength ==
    HypothesisCut
    \o <<Ask(Plain, Of(Routed("episode_hypothesis_apply_length_recovery",
                               "premium_recover"), <<8192, 240000>>))>>

Tried ==
    <<Post([Blank("analysis_progress") EXCEPT !.good = TRUE])>>
    \o Posts(3, [Called("cheap_execute", "stop") EXCEPT !.rule = ApplyRule])
    \o <<See([appliedSince |-> 3, recoveredSince |-> 0,
              reason |-> "analysis_progress_application_exhausted"])>>

AnalysisApplication ==
    Tried
    \o <<Ask(Plain, Routed(ApplyRecoveryRule, "premium_recover")),
         See([recoveredSince |-> 1,
              reason |-> "analysis_progress_recovery_awaiting_outcome"])>>

ExecutionStall ==
    LET stall == <<Post(Called("cheap_probe", "stop")),
                   Post(Blank("execution_stall"))>>
    IN stall \o stall
       \o <<See([stalls |-> 2, stallsSince |-> 2,
                 reason |-> "execution_stall_needs_recovery"]),
            Ask(Plain, Routed("episode_execution_stall_recovery",
                              "premium_recover"))>>

CapabilityFloor ==
    <<Post(Blank("verifier_result")),
      See([version |-> 1, capability |-> "premium_recover",
           reason |-> "verifier_failed_current_delivery"]),
      Ask(Plain, Routed("episode_verifier_recovery_floor",
                        "premium_recover"))>>

StopGate ==
    Posts(49, Called("cheap_execute", "stop"))
    \o <<Post(Called("premium_recover", "stop")),
         See([version |-> 50, severity |-> "blocked", callsSince |-> 50,
              action |-> "premium_recover", routeLabel |-> "pending"]),
         Ask(Old(Plain), Refused("episode_blocked_stop_gate"))>>

AgentCallStop ==
    Posts(26, Called("cheap_probe", "stop"))
    \o <<See([version |-> 26, calls |-> 26, candidate |-> 0, strong |-> 0]),
         Ask(Old(Plain),
             Refused("episode_agent_call_no_progress_stop_gate"))>>

LongExploration ==
    Posts(12, Blank("tool_call"))
    \o <<See([version |-> 12, exploration |-> 12, explorationSince |-> 12,
              candidate |-> 0]),
         Ask(Plain, Of(Routed("episode_long_exploration_replan",
                              "freeze_or_replan"), <<2048, 60000>>))>>

PostReplanStop ==
    <<Post(Called("freeze_or_replan", "stop"))>>
    \o Posts(3, Called("cheap_probe", "stop"))
    \o <<See([replans |-> 1, replan |-> 1, callsSinceReplan |-> 3,
              candidate |-> 0]),
         Ask(Old(Plain), Refused("episode_replan_no_progress_stop_gate"))>>

ProviderIncompleteStop ==
    <<Post(Called("cheap_execute", "incomplete")),
      Ask(Plain, Refused("episode_provider_incomplete_stop_gate"))>>

CostStop ==
    <<Post([Called("premium_reason", "stop") EXCEPT !.cost = 301]),
      Ask(Plain, Refused("episode_cost_without_verifier_stop_gate"))>>

LengthStop ==
    Posts(3, Truncated)
    \o <<Ask(Old(Plain), Refused("episode_length_pressure_stop_gate"))>>

Scenarios ==
    [cases |-> Cases, length |-> LengthPressure, failure |-> FailureFrontier,
     ready |-> CompletionReady, regress |-> CompletionRegress,
     delivery |-> DeliveryFloorReached, apply |-> HypothesisApply,
     applyLength |-> HypothesisLength, analysis |-> AnalysisApplication,
     stall |-> ExecutionStall, floor |-> CapabilityFloor, stop |-> StopGate,
     calls |-> AgentCallStop, exploration |-> LongExploration,
     replan |-> PostReplanStop, incomplete |-> ProviderIncompleteStop,
     cost |-> CostStop, truncated |-> LengthStop]

------------------------------------------------------------------------------
(* The gateway, as the probe drives it *)

Steps == Scenarios[scenario]
Todo(do) == at <= Len(Steps) /\ Steps[at].do = do

Init ==
    /\ scenario \in DOMAIN Scenarios
    /\ at = 1 /\ state = Empty /\ control = Fresh /\ seen = {}
    /\ route = Guardrail(Empty)

\* Mutant of Receive: an event may be projected twice.
ReceiveAgain(e) ==
    state' = Project(state, e) /\ seen' = seen \cup {e.id}

\* projectUniqueEpisodeEvent.
Receive(e) ==
    IF e.id \in seen THEN UNCHANGED <<state, seen>>
    ELSE state' = Project(state, e) /\ seen' = seen \cup {e.id}

PostEvent ==
    /\ Todo("post")
    /\ Receive([Steps[at].event EXCEPT !.id = at])
    /\ at' = at + 1
    /\ UNCHANGED <<scenario, control, route>>

\* A post whose answer was lost is sent again.
PostAgain(i) ==
    /\ i < at /\ Steps[i].do = "post"
    /\ Receive([Steps[i].event EXCEPT !.id = i])
    /\ UNCHANGED <<scenario, at, control, route>>

\* The mock decision model: the strongest for one message, else the cheapest.
Judge(m) ==
    LET hard == "implement" \in m.cues
    IN [strong |-> hard, critical |-> hard, hard |-> hard, executes |-> TRUE,
        action |-> ""]

\* The route is recorded as a call when it has been answered.
Recorded(r) ==
    [Blank("llm_call") EXCEPT
        !.id = at, !.action = r.action, !.rule = r.rule,
        !.outcome = IF r.abort THEN "error" ELSE "stop"]

AskCompletion ==
    /\ Todo("ask") /\ "completion" \in Steps[at].message.cues
    /\ route' = Guardrail(state)
    \* its record clears all the router knows of the episode
    /\ state' = Empty /\ control' = Fresh /\ seen' = {}
    /\ at' = at + 1
    /\ UNCHANGED scenario

AskRoute ==
    /\ Todo("ask") /\ "completion" \notin Steps[at].message.cues
    /\ LET m == Steps[at].message
           c == Observe(control, m)
           r == SafeControl(state, c, c, m)
           out == IF r.rule # "" THEN ByRule(state, r)
                  ELSE Decided(state, state, Judge(m))
       IN /\ route' = out
          /\ control' = IF out.abort THEN c
                        ELSE RecordOutcomeOf(Escalate(state, c, m, r),
                                             out.strong)
          /\ Receive(Recorded(out))
    /\ at' = at + 1
    /\ UNCHANGED scenario

SeeState ==
    /\ Todo("see")
    /\ at' = at + 1
    /\ UNCHANGED <<scenario, state, control, route, seen>>

Next ==
    \/ PostEvent \/ AskCompletion \/ AskRoute \/ SeeState
    \/ \E i \in 1 .. Len(Steps) : PostAgain(i)

Spec == Init /\ [][Next]_vars

------------------------------------------------------------------------------
(* Properties *)

Done(do) == at - 1 \in DOMAIN Steps /\ Steps[at - 1].do = do

\* Every request of the probe gets the model, the action, the rule and the
\* budget the script expects, whatever is delivered again in between.
RoutesAsExpected == Done("ask") => Agrees(Steps[at - 1].want, route)

\* Every state the probe reads has the values the script expects.
StatesAsExpected == Done("see") => Agrees(Steps[at - 1].want, state)
=============================================================================
