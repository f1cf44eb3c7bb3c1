---------------------------- MODULE SafeControl ----------------------------
(***************************************************************************)
(* How the smart router decides a request: the local rules of safe control *)
(* (plugins/smartrouter/safe_control.go), the decision model and the       *)
(* capability floor behind it (plugin.go), the budget of the route         *)
(* (budget.go).                                                            *)
(*                                                                         *)
(* A message is what the rules recognise in it: an error's fingerprint and *)
(* a set of cues.  There are two models on the menu, the cheapest and the  *)
(* strongest.                                                              *)
(***************************************************************************)
EXTENDS Projection

CONSTANTS
    CooldownAfter,   \* premium calls in a row before a cooldown
    CooldownTurns,   \* cheap calls a cooldown lasts
    BurstLimit,      \* cheap calls in a row the message rules may route
    StopCost,        \* cents spent before a trial is stopped
    StopCalls,       \* calls without any progress before it is stopped
    StopLength,      \* truncated calls since progress before it is stopped
    ExploreLimit,    \* explorations, or calls, before a replan
    ReplanLimit,     \* calls after a replan before a stop
    StreakLimit      \* truncated calls in a row that boost a budget

ASSUME SafeControlAssumption ==
    {CooldownAfter, CooldownTurns, BurstLimit, StopCost, StopCalls, StopLength,
     ExploreLimit, ReplanLimit, StreakLimit} \subseteq Nat \ {0}

\* young: the latest call is less than 30 seconds old.
Message(cues) == [cues |-> cues, error |-> "", observation |-> FALSE,
                  young |-> TRUE]

\* A rule: when it applies, its id, and the action of its route.
R(rule, action, when) == [rule |-> rule, action |-> action, when |-> when]
NoRule == R("", "", TRUE)
\* An early return: the rules after it are not tried.
Pass(when) == R("", "", when)

FirstOf(rules) ==
    LET first == SelectInSeq(rules, LAMBDA r : r.when)
    IN IF first = 0 THEN NoRule ELSE rules[first]

------------------------------------------------------------------------------
(* Stop gates *)

Latest(s) == SelectLastInSeq(s.recent, IsCall)

CloseToVerifier(s) ==
    \/ s.readiness \in {"validation_passed", "verifier_failed",
                        "verifier_passed"}
    \/ s.reward
    \/ s.deliveryFiles > 0 /\ s.passed > 0

\* Mutant of Unheard: a refusal counts as a route too.
UnheardAny(s) ==
    RouteLabel(s) = "pending" /\ s.route # 0 /\ s.routeEvents = 0

\* A route of which nothing has been heard yet.
Unheard(s) ==
    /\ RouteLabel(s) = "pending" /\ s.route # 0 /\ s.routeEvents = 0
    /\ s.action \notin {"", "stop_trial"}

InGrace(s, m) == Unheard(s) /\ Latest(s) # 0 /\ m.young

AwaitsProjection(s, m) == Unheard(s) /\ (m.observation \/ InGrace(s, m))

\* The hypothesis of a replan has not been tried.
OpenHypothesis(s) == NeedsApplication(s)

ProviderIncomplete(s) ==
    Latest(s) # 0 /\ s.recent[Latest(s)].outcome = "incomplete"

StallRecovers(s) == ~CloseToVerifier(s) /\ Stalled(s)

ReplanExhausted(s, m) ==
    /\ s.replan # 0 /\ ~CloseToVerifier(s)
    /\ ~OpenHypothesis(s) /\ ~InGrace(s, m)
    /\ s.callsSinceReplan >= ReplanLimit
    /\ ~(s.hyp # "" /\ s.hypStatus = "open"
         /\ s.callsSinceHyp = 0 /\ s.explorationSinceHyp = 0)
    /\ \/ RouteLabel(s) \in {"none", "pending", "no_progress", "run_exception",
                             "test_failed", "verifier_failed"}
       \/ s.explorationSinceReplan >= ExploreLimit

BlockedAfterRecovery(s, m) ==
    /\ s.severity = "blocked" /\ s.action = "premium_recover"
    /\ ~InGrace(s, m)
    /\ RouteLabel(s) \in {"pending", "no_progress"}

TooManyCalls(s, m) ==
    /\ s.calls > StopCalls /\ NoCandidate(s)
    /\ ~InGrace(s, m) /\ ~CloseToVerifier(s)

TooLong(s, m) ==
    /\ s.lengthSince >= StopLength
    /\ ~OpenHypothesis(s) /\ ~InGrace(s, m)
    /\ s.implementation = 0 /\ s.validation = 0 /\ s.delivery = 0
    /\ s.strong = 0 /\ ~CloseToVerifier(s)

Stop(rule, when) == R(rule, "stop_trial", when)

\* Mutant of StopGates: the cost waits for the projection like the others.
StopGatesLate(s, m) ==
    <<Stop("episode_provider_incomplete_stop_gate", ProviderIncomplete(s)),
      Pass(ApplyTruncated(s) \/ StallRecovers(s) \/ AwaitsProjection(s, m)),
      Stop("episode_cost_without_verifier_stop_gate",
           s.cost > StopCost /\ ~CloseToVerifier(s)),
      Stop("episode_replan_no_progress_stop_gate", ReplanExhausted(s, m)),
      Stop("episode_blocked_stop_gate", BlockedAfterRecovery(s, m)),
      Stop("episode_agent_call_no_progress_stop_gate", TooManyCalls(s, m)),
      Stop("episode_length_pressure_stop_gate", TooLong(s, m))>>

StopGates(s, m) ==
    <<Stop("episode_provider_incomplete_stop_gate", ProviderIncomplete(s)),
      Pass(ApplyTruncated(s) \/ StallRecovers(s)),
      Stop("episode_cost_without_verifier_stop_gate",
           s.cost > StopCost /\ ~CloseToVerifier(s)),
      Pass(AwaitsProjection(s, m)),
      Stop("episode_replan_no_progress_stop_gate", ReplanExhausted(s, m)),
      Stop("episode_blocked_stop_gate", BlockedAfterRecovery(s, m)),
      Stop("episode_agent_call_no_progress_stop_gate", TooManyCalls(s, m)),
      Stop("episode_length_pressure_stop_gate", TooLong(s, m))>>

------------------------------------------------------------------------------
(* The other rules *)

\* Reasons of a capability floor that are about the delivery; the conditions
\* isDeliveryCapabilityFloor repeats are those the reason was derived from.
DeliveryFloor ==
    [verifier_failed_current_delivery |-> "episode_verifier_recovery_floor",
     verifier_passed_current_delivery |-> "episode_verifier_assessment_floor",
     validation_passed_assess_hidden_gap |->
        "episode_validation_assessment_floor",
     delivery_candidate_needs_delivery |-> "episode_delivery_candidate_floor",
     delivery_candidate_floor_exhausted |->
        "episode_delivery_candidate_recovery_floor"]

OnDelivery(s) ==
    /\ s.reason \in DOMAIN DeliveryFloor
    /\ s.reason = "validation_passed_assess_hidden_gap" =>
            s.deliveryFiles > 0 \/ s.delivered # 0

DeliveryRules(s) ==
    IF OnDelivery(s) THEN <<R(DeliveryFloor[s.reason], s.hint, TRUE)>> ELSE <<>>

ApplicationExhausted(s) ==
    ~CloseToVerifier(s) /\ Applied(s) /\ s.recoveredSince = 0

PriorityRules(s) ==
    <<R("episode_hypothesis_apply_length_recovery", "premium_recover",
        ApplyTruncated(s)),
      R("episode_execution_stall_recovery", "premium_recover",
        StallRecovers(s)),
      R("episode_analysis_progress_application_recovery", "premium_recover",
        ApplicationExhausted(s)),
      R("episode_analysis_progress_application", "cheap_execute",
        /\ ~CloseToVerifier(s) /\ s.strong > 0
        /\ s.reason = "analysis_progress_needs_application"
        /\ s.progressKind = "analysis_progress")>>

TestPrint(s) == "episode_test:" \o s.print

StateRules(s, live) ==
    <<R("episode_repeated_failure_recovery", "premium_recover",
        /\ s.print # "" /\ s.samePrint >= RepeatLimit
        /\ live.escalated # TestPrint(s)),
      R("episode_long_exploration_replan", "freeze_or_replan",
        /\ ~CloseToVerifier(s) /\ s.replan = 0
        /\ \/ s.explorationSince >= ExploreLimit
           \/ s.callsSince >= ExploreLimit),
      R("episode_replan_hypothesis_apply", "hypothesis_apply",
        OpenHypothesis(s)),
      R("episode_no_progress_recovery", "premium_recover",
        s.severity = "stale"),
      R("episode_blocked_recovery", "premium_recover",
        s.severity = "blocked")>>

\* The cheap message rules: only so many in a row, then the decision model.
Cheap(c, rule, action, when) ==
    IF c.probes < BurstLimit THEN R(rule, action, when) ELSE Pass(when)

MessageRules(c, m) ==
    <<Cheap(c, "file_read_search_cheap", "cheap_probe", "read" \in m.cues),
      Cheap(c, "existing_test_execution_cheap", "cheap_execute",
            "test" \in m.cues),
      Cheap(c, "fixed_format_output_cheap", "cheap_execute",
            "format" \in m.cues)>>

Repeats(c, m) ==
    m.error # "" /\ c.same >= RepeatLimit /\ c.escalated # m.error

\* Mutant of Rules: the cooldown comes first.
RulesCooldown(s, c, live, m) ==
    <<Cheap(c, "premium_cooldown", "cheap_probe",
            c.cooldown > 0 /\ "premium" \notin m.cues),
      R("repeated_error_upgrade", "premium_recover", Repeats(c, m)),
      R("hypothesis_contradiction_upgrade", "premium_recover",
        "contradiction" \in m.cues)>>
    \o DeliveryRules(s) \o PriorityRules(s)
    \o StateRules(s, live) \o MessageRules(c, m)

\* The rules read the copy c made when the message was observed, but whether a
\* test failure was escalated is looked up live.
Rules(s, c, live, m) ==
    <<R("repeated_error_upgrade", "premium_recover", Repeats(c, m)),
      R("hypothesis_contradiction_upgrade", "premium_recover",
        "contradiction" \in m.cues)>>
    \o DeliveryRules(s) \o PriorityRules(s)
    \o <<Cheap(c, "premium_cooldown", "cheap_probe",
               c.cooldown > 0 /\ "premium" \notin m.cues)>>
    \o StateRules(s, live) \o MessageRules(c, m)

\* safeControlDecision after the message has been observed.
SafeControl(s, c, live, m) ==
    LET stop == FirstOf(StopGates(s, m))
    IN IF stop.rule # "" THEN stop ELSE FirstOf(Rules(s, c, live, m))

------------------------------------------------------------------------------
(* What safe control remembers of an episode *)

Fresh == [error |-> "", same |-> 0, escalated |-> "", premium |-> 0,
          cooldown |-> 0, probes |-> 0]

Observe(c, m) ==
    IF m.error # ""
    THEN [c EXCEPT !.error = m.error,
                   !.same = IF c.error = m.error THEN @ + 1 ELSE 1]
    ELSE IF "progress" \in m.cues
    THEN [c EXCEPT !.error = "", !.escalated = "", !.same = 0, !.probes = 0]
    ELSE c

Escalate(s, c, m, r) ==
    CASE r.rule = "repeated_error_upgrade" -> [c EXCEPT !.escalated = m.error]
      [] r.rule = "episode_repeated_failure_recovery" ->
            [c EXCEPT !.escalated = TestPrint(s)]
      [] OTHER -> c

Strongest(action) ==
    action \in {"premium_recover", "premium_reason", "freeze_or_replan",
                "completion_guardrail"}

\* Mutant of RecordOutcomeOf: the premium calls are not counted.
RecordOutcomeUncounted(c, strong) ==
    IF strong THEN [c EXCEPT !.probes = 0]
    ELSE [c EXCEPT !.premium = 0, !.probes = @ + 1,
                   !.cooldown = IF @ > 0 THEN @ - 1 ELSE 0]

RecordOutcomeOf(c, strong) ==
    IF strong
    THEN [c EXCEPT !.premium = @ + 1, !.probes = 0,
                   !.cooldown = IF c.premium + 1 >= CooldownAfter /\ @ = 0
                                THEN CooldownTurns ELSE @]
    ELSE [c EXCEPT !.premium = 0, !.probes = @ + 1,
                   !.cooldown = IF @ > 0 THEN @ - 1 ELSE 0]

------------------------------------------------------------------------------
(* Budgets *)

Profile ==
    [cheap_probe |-> <<2048, 60000>>, cheap_execute |-> <<1536, 60000>>,
     premium_reason |-> <<4096, 180000>>, premium_recover |-> <<4096, 180000>>,
     completion_guardrail |-> <<1024, 60000>>,
     freeze_or_replan |-> <<2048, 60000>>, hypothesis_apply |-> <<4096, 90000>>]

MaxTokens == 8192
MaxTimeout == 240000    \* milliseconds

Least(a, b) == IF a < b THEN a ELSE b
Most(a, b) == IF a < b THEN b ELSE a

\* Truncated calls raise a budget, at most threefold and twofold; an episode
\* without progress gets no more.
Budget(s, action) ==
    LET p == Profile[action]
        pressure == Most(s.lengthStreak, RecentLength(s))
    IN IF s.version = 0 THEN p
       ELSE IF \/ action = "freeze_or_replan"
               \/ s.active \/ s.severity \in {"stale", "blocked"}
               \/ /\ s.lengthStreak < StreakLimit
                  /\ RecentLength(s) < PressureLimit
       THEN p
       ELSE <<Least(MaxTokens, p[1] * Least(1 + pressure, 3)),
              Least(MaxTimeout, p[2] * Least(1 + pressure, 2))>>

\* A route: where it comes from, its rule, its model and its budget.
Route(source, rule, action, strong, s) ==
    [source |-> source, rule |-> rule, action |-> action, strong |-> strong,
     abort |-> action = "stop_trial",
     budget |-> IF action = "stop_trial" THEN <<0, 0>> ELSE Budget(s, action)]

------------------------------------------------------------------------------
(* The decision model and the capability floor *)

\* A decision: the model chosen, whether it called the step critical and hard,
\* whether it called it execution rather than probing, and the budget action it
\* asks for, if any.
Decision == [strong : BOOLEAN, critical : BOOLEAN, hard : BOOLEAN,
             executes : BOOLEAN, action : {""} \cup DOMAIN Profile]

InferAction(d) ==
    IF d.action # "" THEN d.action
    ELSE IF d.strong \/ d.critical
    THEN IF d.hard THEN "premium_recover" ELSE "premium_reason"
    ELSE IF d.executes THEN "cheap_execute" ELSE "cheap_probe"

Rank(capability) ==
    CASE capability = "premium_recover" -> 4
      [] capability = "premium_assess" -> 3
      [] capability = "cheap_execute" -> 2
      [] capability = "cheap_probe" -> 1
      [] OTHER -> 0

RouteCapability(strong, action) ==
    CASE action \in {"premium_recover", "freeze_or_replan"} -> "premium_recover"
      [] action \in {"premium_reason", "completion_guardrail"} ->
            "premium_assess"
      [] action \in {"cheap_execute", "hypothesis_apply"} ->
            IF strong THEN "premium_assess" ELSE "cheap_execute"
      [] OTHER -> IF strong THEN "premium_assess" ELSE "cheap_probe"

\* Floors that are enforced; the others are only noted in the reason.
Forced(s) ==
    \/ s.capability = "premium_recover"
       /\ \/ s.reason \in {"verifier_failed_current_delivery",
                           "last_route_outcome_negative"}
          \/ s.reason \in Range(NoProgressReason)
    \/ s.capability = "premium_assess"
       /\ \/ s.reason \in {"verifier_passed_current_delivery",
                           "last_route_verifier_passed"}
          \/ /\ s.deliveryFiles > 0 \/ s.delivered # 0
             /\ s.reason \in {"validation_passed_assess_hidden_gap",
                              "last_route_validation_passed"}
    \/ s.capability = "cheap_execute"
       /\ s.reason \in {"replan_hypothesis_needs_validation",
                        "delivery_candidate_needs_delivery"}

\* The decision d, taken on the snapshot s; the budget is that of the state
\* now when it arrives.
Decided(s, now, d) ==
    LET action == InferAction(d)
        low == Rank(RouteCapability(d.strong, action)) < Rank(s.capability)
    IN IF s.version > 0 /\ low /\ Forced(s)
       THEN Route("decision", "forced", s.hint,
                  s.capability \notin {"cheap_probe", "cheap_execute"}, now)
       ELSE Route("decision", "", action, d.strong, now)

Guardrail(s) == Route("guardrail", "", "completion_guardrail", TRUE, s)

\* A request for a known model goes to it, with no action and no budget.
Pinned == [source |-> "pinned", rule |-> "", action |-> "", strong |-> FALSE,
           abort |-> FALSE, budget |-> <<0, 0>>]

ByRule(s, r) == Route("safe-control", r.rule, r.action, Strongest(r.action), s)

\* The router could not reach its decision model, or it named an unknown one:
\* the fallback, here the strongest model.
Fallback(s) == Route("fallback", "", "premium_recover", TRUE, s)
=============================================================================
